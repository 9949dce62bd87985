----------------------------- MODULE MCSessions -----------------------------
(* Instances of Sessions for TLC: the messages the peers of a run send.    *)
EXTENDS Sessions, TLC

Logins == [kind : {"login"}, user : User]

LoginLogout == Logins \cup [kind : {"logout"}]

WithObserve == LoginLogout \cup [kind : {"observe"}, tile : Tile]

WithLists == Logins \cup [kind : {"lists"}]

WithFactions ==
  Logins \cup [kind : {"faction"}, name : FactionName \ {Neutral}]
         \cup [kind : {"register"}, user : User]
         \cup [kind : {"info"}]

Symmetry == Permutations(User) \cup Permutations(Addr)
=============================================================================
