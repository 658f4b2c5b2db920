------------------------------- MODULE MCServices -------------------------------
(* Supervisor, Updater and Chat on small instances for TLC, each while the   *)
(* others rest: they share no variable.                                     *)
EXTENDS Supervisor, Updater, Chat

MCRelease(core, rank, image) == [core |-> core, rank |-> rank, image |-> image]

(* 1.9, 1.10, then a hotfix of the old line, a release that was published   *)
(* without an image, and the same again with one.                           *)
MCReleases ==
    <<MCRelease(<<1, 9>>, 1, TRUE), MCRelease(<<1, 10>>, 3, TRUE),
      MCRelease(<<1, 9, 1>>, 2, TRUE), MCRelease(<<2, 0>>, 4, FALSE),
      MCRelease(<<2, 0, 0>>, 4, TRUE)>>

MCInit == Init /\ UpdaterInit /\ ChatInit

(* One initial state of each is enough for the others to rest in. *)
UpdaterRests == UpdaterInit /\ build = "self" /\ UNCHANGED updaterVars
ChatRests ==
    ChatInit /\ forced = "auto" /\ key /\ cli = "works" /\ UNCHANGED chatVars

MCNext ==
    \/ Next /\ UpdaterRests /\ ChatRests
    \/ Init /\ UNCHANGED vars /\ UpdaterNext /\ ChatRests
    \/ Init /\ UNCHANGED vars /\ UpdaterRests /\ ChatNext

MCSpec ==
    /\ MCInit
    /\ [][MCNext]_<<vars, updaterVars, chatVars>>
    /\ Fairness /\ UpdaterFairness /\ ChatFairness

(* Every variable of the three has its type. *)
MCTypeOK == TypeOK /\ UpdaterTypeOK /\ ChatTypeOK
=============================================================================
