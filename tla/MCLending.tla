------------------------------ MODULE MCLending ------------------------------
(* TLC instances of Lending: settings, events and faults.                   *)
EXTENDS Lending

(* Both tasks run; nothing else happens but a deposit into the wallet. *)
Plain == [lying |-> 0, funds |-> 1, once |-> FALSE, cap |-> 0, sends |-> FALSE, partial |-> FALSE,
          turns |-> {}, running |-> Tasks, jobs |-> {}, events |-> {}, faults |-> {}]

Alone == [Plain EXCEPT !.running = {"tick"}]

(* One setup for each group of events and faults the properties are about. *)
Quiet == [Plain EXCEPT !.lying = 1, !.once = TRUE, !.events = {"sol"}]
First == [Plain EXCEPT !.lying = NoBase, !.sends = TRUE, !.turns = {"low"}, !.faults = {"lag", "read"}]
Flaps == [Alone EXCEPT !.funds = 2, !.turns = {"thin", "good"}, !.events = {"day"}]
Killed == [Alone EXCEPT !.jobs = {"move"}, !.faults = {"kill", "lost"}]
Moved == [Plain EXCEPT !.turns = {"low"}, !.jobs = {"deposit"}]
Unseen == [Alone EXCEPT !.turns = {"low"}, !.jobs = {"deposit", "withdraw"}, !.faults = {"lost"}]
Taken == [Alone EXCEPT !.funds = 2, !.once = TRUE, !.partial = TRUE, !.jobs = {"withdraw"}]
Lossy == [Plain EXCEPT !.turns = {"thin"}, !.faults = {"lost", "lag"}]
Crashes == [Alone EXCEPT !.turns = {"low", "unknown"}, !.faults = {"restart"}]
User  == [Plain EXCEPT !.turns = {"low"}, !.events = {"user"}]
AllSetups == {Quiet, First, Flaps, Killed, Moved, Unseen, Taken, Lossy, Crashes, User}
=============================================================================
