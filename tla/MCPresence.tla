----------------------------- MODULE MCPresence ------------------------------
(***************************************************************************)
(* A small instance of Presence: one disturbance, none if a friend is      *)
(* visited, and guards that rest while a login's start-up goes on.         *)
(***************************************************************************)
EXTENDS Presence
MCNext ==
    /\ PresenceNext
    /\ drops' + outages' + leaves' <= IF visits THEN 0 ELSE 1
    /\ Starting => UNCHANGED guardVars \/ conn' = 0
MCSpec == PresenceInit /\ [][MCNext]_presenceVars /\ PresenceFairness
=============================================================================
