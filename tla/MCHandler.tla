------------------------------ MODULE MCHandler ------------------------------
(* Small instances of the resources of a handler for TLC.  Notifications    *)
(* and pages have no variable in common: one rests while the other runs.    *)
EXTENDS ResourceUpdates, ListPages

HandlerInit == Init /\ PagesInit

HandlerNext ==
    \/ PagesInit /\ Next /\ UNCHANGED pageVars
    \/ Init /\ PagesNext /\ UNCHANGED vars

HandlerSpec ==
    /\ HandlerInit
    /\ [][HandlerNext]_<<vars, pageVars>>
    /\ Fairness
=============================================================================
