\* Two conversations (a direct chat can be doubled), two users of whom one has a
\* socket, two requests that overlap, two names.
SPECIFICATION GateSpec
CONSTANTS
  Conversations = {x1, x2}
  Users = {u1, u2}
  Listener = u2
  Names = {a, b}
  Clients = {c1, c2}
  Null = Null
  Sockets = {s1}
  UserOf <- SocketsAreListeners
  MaxClientsPerUser = 1
SYMMETRY Symmetry
CONSTRAINT GroupAlone
INVARIANTS GateTypeOK OneDirectChat OwnerStays RoomsFollowMembers
PROPERTIES MembersChangeByOwner KeepsMembership
\* Everybody may have left and every conversation been made: the system may stop.
CHECK_DEADLOCK FALSE
