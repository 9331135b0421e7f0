--------------------------- MODULE MCWebinarSession ---------------------------
(***************************************************************************)
(* Instances of WebinarSession: two registrations that share a first name, *)
(* and a report with a participant under a known address, one under a      *)
(* known name, one under the first name only and a stranger.               *)
(***************************************************************************)
EXTENDS WebinarSession, TLC

TwoAnns == << [email |-> "a1", name |-> "ann lee", first |-> "ann"],
              [email |-> "a2", name |-> "ann ray", first |-> "ann"] >>

Participant(email, name, first, minutes) ==
    [email |-> email, name |-> name, first |-> first, seconds |-> 60 * minutes]
Participants == { Participant("a1", "guest", "guest", 10),
                  Participant("", "ann ray", "ann", 50),
                  Participant("x", "ann", "ann", 20),
                  Participant("y", "bob", "bob", 90) }

WorkerSymmetry == Permutations(Worker)
===============================================================================
