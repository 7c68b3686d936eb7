----------------------------- MODULE MCCommands -----------------------------
(* Commands on a small instance: two clients, and two keys in two stripes  *)
(* whose order is not the keys' order.                                     *)
EXTENDS Commands, TLC

One == <<49>>
Order == 1 :> 2 @@ 2 :> 1
InStore == {<<Record(One, 0), Absent>>, <<Record(One, 2), Record(One, 0)>>}

C(name, keys) == [Idle EXCEPT !.name = name, !.keys = keys]
Val(m) == [m EXCEPT !.val = <<50>>]
Opt(m, o) == [m EXCEPT !.opts = {o}]

Requests == "c1" :> {C("rename", <<1, 2>>), Val(C("mset", <<1, 2>>)),
                     [C("incrby", <<1>>) EXCEPT !.n = 1], Val(C("setnx", <<2>>)), C("scan", <<>>)}
         @@ "c2" :> {C("rename", <<2, 1>>), C("renamenx", <<1, 2>>), Opt(C("copy", <<1, 2>>), "replace"),
                     Val(C("mset", <<2, 1>>)), Val(C("msetnx", <<1, 2>>)),
                     [C("expire", <<1>>) EXCEPT !.at = 2],
                     [Val(C("setrange", <<1>>)) EXCEPT !.n = MaxInt],
                     C("del", <<1, 2>>), C("mget", <<1, 2>>), C("flushall", <<>>),
                     C("keys", <<>>), C("randomkey", <<>>)}
Renames == "c1" :> {C("rename", <<1, 2>>)} @@ "c2" :> {C("rename", <<2, 1>>)}
InOne == {<<Record(One, 0), Absent>>}
Load == "c1" :> 2 @@ "c2" :> 1
=============================================================================
