---- MODULE MCHuman ----
(* Instances of HumanInput for TLC. *)
EXTENDS HumanInput, TLC

CONSTANTS strict, loose, lax, shut, odd

\* Two documents that ask for a review, and one each that allows, denies and
\* asks for a remedy the adapter does not support.
Verdicts == [p \in Policies |-> CASE p = lax -> "allow"
                                  [] p = shut -> "deny"
                                  [] p = odd -> "unsupported"
                                  [] OTHER -> "review"]

WorkerSymmetry == Permutations(Workers)
====
