------------------------------ MODULE MCTriage ------------------------------
(* Two messages, in threads of their own, from two identities.              *)
EXTENDS Triage
CONSTANTS m1, m2, t1, t2, bulk, boss, c
OwnThread == (m1 :> t1) @@ (m2 :> t2)
Mail(tag, event, category, risky, aligned, from) ==
    [tag |-> tag, event |-> event, category |-> category, risky |-> risky, aligned |-> aligned,
     bulk |-> from = bulk, read |-> tag = "other",
     list |-> IF from = bulk THEN bulk ELSE NoList, from |-> from]
Promotion == Mail("spam", "none", NoCategory, FALSE, TRUE, bulk)
Appointment == Mail("spam", "sound", NoCategory, FALSE, FALSE, bulk)
Vetoed == Mail("spam", "none", NoCategory, TRUE, TRUE, boss)
Topic == Mail("important", "unsound", c, FALSE, TRUE, boss)
Unbound == Mail("other", "none", c, FALSE, FALSE, boss)     \* fails the binding of a rule on boss
Suspicious == Mail("suspicious", "sound", c, FALSE, FALSE, bulk)
Pair(a, b) == (m1 :> a) @@ (m2 :> b)
Everything == CommandNames \ {"send"}
Set(mail, commands, archive) == [trait |-> mail, commands |-> commands, archive |-> archive]
SomeSettings == {
    Set(Pair(Promotion, Promotion), {"send"}, FALSE),
    Set(Pair(Promotion, Vetoed), {"send"}, FALSE),
    Set(Pair(Appointment, Suspicious), {"move"}, TRUE),
    Set(Pair(Promotion, Promotion), Everything, FALSE),
    Set(Pair(Promotion, Unbound), CommandNames \ {"send"}, TRUE),
    Set(Pair(Topic, Unbound), Everything, TRUE),
    Set(Pair(Topic, Vetoed), Everything, FALSE)}
=============================================================================
