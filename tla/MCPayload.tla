------------------------------- MODULE MCPayload -------------------------------
(* A small instance of Payload for TLC. *)
EXTENDS Payload

\* A short text, one that fits only the longer fields, and one that fits none.
MCTexts == {"empty", "short", "foreign", "lossy", "middle", "long"}
MCSize == [t \in MCTexts |-> CASE t = "empty" -> 0 [] t = "middle" -> 100
                               [] t = "long" -> 128 [] OTHER -> 9]
================================================================================
