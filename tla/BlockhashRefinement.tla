------------------------ MODULE BlockhashRefinement ------------------------
(***************************************************************************)
(* The blockhash manager implements SingleFlight: the fetcher is the task  *)
(* whose getLatestBlockhash is out, and the time is the cluster's slot.    *)
(***************************************************************************)
EXTENDS BlockhashManager

CONSTANT NoTask     \* stands for "nobody fetches"

ASSUME NoTaskAssumption == NoTask \notin Tasks

Fetching == {t \in Tasks : pc[t] = "fetch"}

fetcherBar == IF Fetching = {} THEN NoTask ELSE CHOOSE t \in Fetching : TRUE
sinceBar == IF Fetching = {} THEN 0 ELSE started[fetcherBar]

SF == INSTANCE SingleFlight
        WITH clock <- slot, fetcher <- fetcherBar, since <- sinceBar

\* Whatever callers, reports, failed calls and layer boundaries do, fetches
\* of lease() never overlap and a lease is never replaced by one whose fetch
\* began earlier (fetch_lease reads the clock before the call).
ImplementsSingleFlight == SF!Spec

=============================================================================
