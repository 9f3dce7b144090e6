------------------------- MODULE MCRequestLifecycle -------------------------
(* Instances of RequestLifecycle for TLC. *)
EXTENDS RequestLifecycle, TLC

Blank == [trace |-> 1, span |-> "", home |-> "orders", group |-> "", consumer |-> "",
          outcome |-> "", error |-> "", attempt |-> 0, registered |-> None,
          started |-> None, processed |-> None, acknowledged |-> None]

Registered == [Blank EXCEPT !.registered = 1, !.group = "g"]
Failed     == [Blank EXCEPT !.attempt = 1, !.consumer = "w1", !.started = 2,
                            !.processed = 3, !.outcome = "failed", !.error = "e"]
Retried    == [Blank EXCEPT !.attempt = 2, !.consumer = "w2", !.started = 4]
Completed  == [Blank EXCEPT !.attempt = 2, !.processed = 5, !.acknowledged = 6,
                            !.outcome = "success"]
Misplaced  == [Blank EXCEPT !.home = "other", !.registered = 1]
Work       == [Blank EXCEPT !.span = "work", !.attempt = 1, !.started = 3]
Second     == [Blank EXCEPT !.trace = 2, !.registered = 2]

Reported == {Registered, Failed, Retried, Completed, Misplaced, Work, Second}

Batches == {<<Failed>>, <<Registered>>, <<Retried>>, <<Completed>>, <<Work, Misplaced>>,
            <<Second>>}

ClientSymmetry == Permutations(Client)
=============================================================================
