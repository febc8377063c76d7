----------------------------- MODULE AtomicFile -----------------------------
(***************************************************************************)
(* What DurableWriteFile promises: a file that is replaced as a whole.     *)
(* Readers see one version; a power loss leaves one of the candidates, and *)
(* a write that has returned Ok is the only one.  `promised` is FALSE when *)
(* no sync is asked for, and nothing is promised.                          *)
(***************************************************************************)
CONSTANT Versions
VARIABLES visible, candidates, promised

fileVars == <<visible, candidates, promised>>

Init == visible \in Versions /\ candidates = {visible} /\ promised \in BOOLEAN

\* A write that has not returned Ok yet, or never will.
Replace == visible' \in Versions /\ candidates' = candidates \cup {visible'}

Confirm == visible' = visible /\ candidates' = {visible}

PowerLoss == visible' \in candidates /\ candidates' = {visible'}

Next ==
    /\ promised' = promised
    /\ promised => Replace \/ Confirm \/ PowerLoss

Spec == Init /\ [][Next]_fileVars
=============================================================================
