---------------------------- MODULE MessageBoard ----------------------------
(***************************************************************************)
(* What MessageService promises of a message as long as nobody races on    *)
(* it: each operation acts on the message at once, as it is, and changes   *)
(* what the operation is about and nothing else.  From the moment a write  *)
(* falls between the read and the write of another operation, nothing is   *)
(* promised of that message any more.                                      *)
(***************************************************************************)
EXTENDS Sequences, Naturals

CONSTANTS Messages, Users, Contents, Emojis, Null

VARIABLE board   \* each message as its conversation sees it

Blank == [state |-> "absent", sender |-> Null, content |-> Null, edited |-> FALSE,
          history |-> <<>>, reactions |-> [u \in Users |-> Null], readBy |-> {},
          deletedBy |-> Null]
Raced == [Blank EXCEPT !.state = "raced"]

BoardInit == board = [m \in Messages |-> Blank]

Shown(m) == board[m].state = "shown"

Post(m, u, content) ==
  /\ board[m].state = "absent"
  /\ board' = [board EXCEPT ![m].state = "shown", ![m].sender = u,
                            ![m].content = content]

(* Only the sender edits, and the history tells by whom each content was   *)
(* replaced.                                                               *)
Edit(m, u, content) ==
  /\ Shown(m)
  /\ board[m].sender = u
  /\ board' = [board EXCEPT
       ![m].content = content,
       ![m].edited = TRUE,
       ![m].history = Append(@, [content |-> board[m].content, editor |-> u])]

React(m, u, emoji) ==
  /\ Shown(m)
  /\ board' = [board EXCEPT ![m].reactions[u] = emoji]

Unreact(m, u) ==
  /\ Shown(m)
  /\ board' = [board EXCEPT ![m].reactions[u] = Null]

Read(m, u) ==
  /\ Shown(m)
  /\ board' = [board EXCEPT ![m].readBy = @ \cup {u}]

(* Only the sender deletes, and nothing follows a deletion.                *)
Delete(m, u) ==
  /\ Shown(m)
  /\ board[m].sender = u
  /\ board' = [board EXCEPT ![m].state = "deleted", ![m].deletedBy = u]

Race(m) ==
  /\ board[m].state # "absent"
  /\ board' = [board EXCEPT ![m] = Raced]

BoardNext ==
  \E m \in Messages :
    \/ \E u \in Users :
         \/ \E content \in Contents : Post(m, u, content) \/ Edit(m, u, content)
         \/ \E emoji \in Emojis : React(m, u, emoji)
         \/ Unreact(m, u)
         \/ Read(m, u)
         \/ Delete(m, u)
    \/ Race(m)

BoardSpec == BoardInit /\ [][BoardNext]_board
=============================================================================
