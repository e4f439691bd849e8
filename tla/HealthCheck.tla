------------------------------ MODULE HealthCheck -----------------------------
(***************************************************************************)
(* Assess of pkg/healthcheck: a poller sends the status of each checked    *)
(* resource when it changes, a collector keeps the last one of each, and   *)
(* an observer cancels the context once all are Current.  The context also *)
(* ends at the timeout.  Events sent before the poller sees the end of the *)
(* context are still collected.                                            *)
(***************************************************************************)
EXTENDS FiniteSets

CONSTANT Checked     \* spec.healthChecks

VARIABLE assess      \* the assessment in hand

NoAssessment == [pc       |-> "off",      \* off, polling, done
                 ctx      |-> "open",     \* open, cancelled, expired
                 err      |-> FALSE,      \* the collector met an error event
                 current  |-> {},         \* resources whose last event says Current
                 together |-> FALSE]      \* all of them did at one time

Assessments == [pc : {"off", "polling", "done"}, ctx : {"open", "cancelled", "expired"},
                err : BOOLEAN, current : SUBSET Checked, together : BOOLEAN]

StartAssess == assess' = [NoAssessment EXCEPT !.pc = "polling"]

\* Mutant of AggregateStatus: one Current resource is enough.
AnyCurrent(current) == current # {}

AggregateStatus(current) == current = Checked

\* An event of the poller and the observer's answer to it.
Observe(r) ==
    /\ assess.pc = "polling" /\ ~assess.err
    /\ \E current \in {assess.current \union {r}, assess.current \ {r}} :
        assess' = [assess EXCEPT
                    !.current = current,
                    !.together = @ \/ current = Checked,
                    !.ctx = IF @ = "open" /\ AggregateStatus(current) THEN "cancelled" ELSE @]

\* The poller cannot read a resource.
PollFails == /\ assess.pc = "polling" /\ assess.ctx = "open" /\ ~assess.err
             /\ assess' = [assess EXCEPT !.err = TRUE]

\* spec.timeout and a second are over.
Expires == /\ assess.pc = "polling" /\ assess.ctx = "open" /\ ~assess.err
           /\ assess' = [assess EXCEPT !.ctx = "expired"]

\* The poller closes the channel.
Closes == /\ assess.pc = "polling"
          /\ assess.err \/ assess.ctx # "open"
          /\ assess' = [assess EXCEPT !.pc = "done"]

\* What Assess returns: an error for an error event or a timeout, the one at
\* which everything had become Current included.
Passed == assess.pc = "done" /\ ~assess.err /\ assess.ctx # "expired"
===============================================================================
