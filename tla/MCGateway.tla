----------------------------- MODULE MCGateway -----------------------------
(***************************************************************************)
(* Gateway for TLC: two users, of whom one has sockets, and two requests   *)
(* that overlap.  A direct chat needs a second conversation to be doubled; *)
(* a group meets no other conversation, so it is given none (GroupAlone).  *)
(***************************************************************************)
EXTENDS Gateway, TLC

CONSTANT Listener   \* the user with the sockets
SocketsAreListeners == [s \in Sockets |-> Listener]

Symmetry == Permutations(Clients) \cup Permutations(Conversations)
              \cup Permutations(Names) \cup Permutations(Sockets)

GroupAlone ==
  \A x, y \in Conversations : type[x] = "group" /\ x # y => type[y] = "none"
=============================================================================
