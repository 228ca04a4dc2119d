--------------------------- MODULE ResponseStream ---------------------------
(***************************************************************************)
(* What Generate and GenerateStream promise their caller (src/genai/       *)
(* genai.go), without goroutine, channels or context: there is one answer, *)
(* it is delivered from its beginning, in order and without a gap, and a   *)
(* caller that is done and was told of no error has all of it.             *)
(***************************************************************************)
EXTENDS Sequences, Naturals

VARIABLES answer,      \* the responses of the model, converted
          delivered,   \* those the caller has
          word,        \* what the caller was told of how the answer ended
          over         \* the caller is done

streamVars == <<answer, delivered, word, over>>

Init == delivered = <<>> /\ word = "unread" /\ ~over

Deliver ==
    /\ ~over /\ Len(delivered) < Len(answer)
    /\ delivered' = Append(delivered, answer[Len(delivered) + 1])
    /\ UNCHANGED <<answer, word, over>>

(* A caller that is done was told how it ended, and told the truth. *)
Honest == over => word # "unread" /\ (word = "nil" => delivered = answer)

(* The caller is told, once: before the responses, between them or last. *)
Tell ==
    /\ ~over /\ word = "unread"
    /\ word' \in {"nil", "stream", "ctx"} /\ over' \in BOOLEAN
    /\ UNCHANGED <<answer, delivered>>
    /\ Honest'

End ==
    /\ ~over /\ over' = TRUE
    /\ UNCHANGED <<answer, delivered, word>>
    /\ Honest'

(* Generate: the answer is there at once, or an error is. *)
Reply ==
    /\ ~over /\ delivered = <<>> /\ word = "unread"
    /\ \/ delivered' = answer /\ word' = "nil"
       \/ delivered' = <<>> /\ word' = "stream"
    /\ over' = TRUE
    /\ UNCHANGED answer

Next == Deliver \/ Tell \/ End \/ Reply

Spec == Init /\ [][Next]_streamVars
=============================================================================
