---- MODULE MCDeadlines ----
EXTENDS Deadlines, TLC

Item(id, tone, at) == [id |-> id, tone |-> tone, at |-> at]
Broken == [id |-> Bad, tone |-> "none", at |-> Unusable]
Old == <<"old", 0, 0>>

MCTones == <<"silver", "rose", "teal">>
MCRows == {
    [kind |-> "none"], [kind |-> "unreadable"], List(<<>>),
    List(<<Broken>>),
    List(<<Item(Bad, "none", 2), Item(Slot(1, 0), "silver", 1), Item(Slot(1, 0), "silver", 1)>>),
    List(<<Broken, Item(Primary, "rose", 2), Item(Old, "rose", 1), Item(Bad, "teal", 1)>>)
}
MCLeft == {[row |-> r, legacy |-> l[1], default |-> l[2]] : r \in MCRows,
           l \in {<<"none", FALSE>>, <<"none", TRUE>>, <<"refused", TRUE>>, <<"good", FALSE>>}}
Symmetric == Permutations(Handlers) \cup Permutations(Pins)
====
