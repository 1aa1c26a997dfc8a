---------------------------- MODULE MCGovernance ----------------------------
(* All the record repositories, one per behaviour, under a few calls.  The *)
(* collaboration records also start from a session with one open thread,   *)
(* as two answered calls leave them, so that two calls can add turns.      *)
EXTENDS GovernanceRepositories

AllSeeds ==
    [r \in DOMAIN AllRepositories |->
        {<<>>} \cup IF r # "collaboration" THEN {}
                    ELSE {<<Answered("session", "draft", {}), Answered("thread", "draft", {1})>>}]
=============================================================================
