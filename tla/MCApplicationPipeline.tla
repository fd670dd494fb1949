----------------------- MODULE MCApplicationPipeline -----------------------
(***************************************************************************)
(* ApplicationPipeline for TLC: the symmetry of workers, which differ in   *)
(* nothing but their slot, and a view without the history variables, for   *)
(* the runs whose properties do not read them (no guard does).             *)
(***************************************************************************)
EXTENDS ApplicationPipeline, TLC

WorkerSymmetry == Permutations(Workers)

NoHistory == <<app, raw, lock, event, criteria, tokens, issued, mails, receipts,
               workers, crashes>>
=============================================================================
