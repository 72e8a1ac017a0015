----------------------------- MODULE MCMBroker -----------------------------
(* Instances of MBroker for TLC: each run has its own set of requests. *)
EXTENDS MBroker, TLC

Request(id, code, name) == [id |-> id, code |-> code, box_name |-> name]

CreateBox(id, name) == Request(id, "CREATE", name)
RemoveBox(id, name) == Request(id, "REMOVE", name)
Pub(id, name) == Request(id, "PUB_REGISTER", name)
Sub(id, name) == Request(id, "SUB_REGISTER", name)
ListBoxes(id) == Request(id, "LIST", NULL)

\* Two publishers and two subscribers of a box.
Messages == {CreateBox(1, "a"), Pub(2, "a"), Pub(3, "a"), Sub(4, "a"), Sub(5, "a")}
MessagesQuitters == {Pub(2, "a"), Sub(4, "a")}

\* Three managers create the same box, which is removed and listed while it has a
\* publisher: boxes with one name, slots used again, no slot and no inode left.
Managers == {CreateBox(1, "a"), CreateBox(2, "a"), CreateBox(3, "a"), RemoveBox(4, "a"),
             ListBoxes(5), Pub(6, "a")}
ManagersQuitters == {ListBoxes(5), Pub(6, "a")}

\* A box removed under its publisher and its subscriber.
Removal == {CreateBox(1, "a"), Pub(2, "a"), Sub(3, "a"), RemoveBox(4, "a")}
RemovalQuitters == {Pub(2, "a")}

\* A box is removed while a subscriber registers, and another is created.
LateSubscriber == {CreateBox(1, "a"), Sub(2, "a"), RemoveBox(3, "a"), CreateBox(4, "b")}

Nobody == {}

Symmetry == Permutations(Workers)
=============================================================================
