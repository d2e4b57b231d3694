----------------------------- MODULE MCBackups -----------------------------
(* A small instance of Backups for TLC. *)
EXTENDS Backups, TLC

CONSTANTS p1, p2, empty, old, new, big

Snap == <<"__snapshot.db">>
Mani == <<"manifest.json">>
Data == <<"across.db">>
Tool == <<"plugins", "tool">>
Repo == <<"repositories", "r">>
Ref == <<"repositories", "caf\\xe9">>
RefRead == <<"repositories", "caf\\ufffd">>
Token == <<"serve.token">>
File == <<"a">>
Below == <<"a", "b">>
Up == <<"..", "a">>

Bodies == {empty, old, new, big}
Sizes == empty :> 0 @@ old :> 1 @@ new :> 1 @@ big :> 2
Symmetry == Permutations({p1, p2})

Plugins == {Tool}
Others == {Repo, Ref, Token}
Read == [f \in {Tool, Repo, Ref, Token, Snap} |-> IF f = Ref THEN RefRead ELSE f]
Invalids == {Up}
Transients == {Data, Token}
Locals == {File, Below}

\* Archives from elsewhere: up to four members, right and wrong ones, with
\* manifests that list them, leave some out, or list too much.
Mem(n, b) == [name |-> n, regular |-> TRUE, body |-> b]
Ent(n, b) == [path |-> n, body |-> b]

SomeMembers == {Mem(Snap, old), Mem(Mani, old), Mem(File, old), Mem(Below, empty)}
OddMembers ==
  {Mem(Mani, empty), Mem(Data, old), Mem(Token, old), Mem(Up, old), Mem(File, new),
   Mem(File, big), [name |-> File, regular |-> FALSE, body |-> old]}
SomeLists ==
  {<<>>, <<Ent(Snap, old)>>, <<Ent(Snap, new)>>, <<Ent(Snap, old), Ent(File, old)>>,
   <<Ent(File, old), Ent(Snap, old)>>, <<Ent(File, new), Ent(Snap, old)>>,
   <<Ent(File, old), Ent(File, old), Ent(Snap, old)>>,
   <<Ent(Below, empty), Ent(File, old), Ent(Snap, old)>>, <<Ent(Snap, old), Ent(Below, empty)>>,
   <<Ent(Snap, old), Ent(Mani, old)>>,
   <<Ent(Snap, old), Ent(File, old), Ent(Repo, old), Ent(Tool, old)>>,
   <<Ent(File, big), Ent(Snap, old)>>, <<Ent(Snap, old), Ent(Up, old)>>}
Streams ==
  UNION {[1..n -> SomeMembers] : n \in 1..4}
    \cup {<<Mem(Snap, old), Mem(Mani, old), m>> : m \in OddMembers}
    \cup {<<m, Mem(Snap, old), Mem(Mani, old)>> : m \in OddMembers}
    \cup {<<Mem(Snap, old), m>> : m \in OddMembers}
    \cup {<<Mem(Snap, old), Mem(Mani, old), Mem(File, old), Mem(Repo, old), Mem(Tool, old)>>}
Archives == {[members |-> s, manifest |-> l] : s \in Streams, l \in SomeLists}
=============================================================================
