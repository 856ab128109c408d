--------------------------- MODULE PlatformCalls ---------------------------
(***************************************************************************)
(* What the services of the four platforms share: the account that was     *)
(* connected, the calls that are open, the posts as the platform has them  *)
(* and as the tables have them.  A call holds what it loaded while it      *)
(* waits for storage, for the platform and for the database; each of them  *)
(* may refuse, and the process may die.                                    *)
(***************************************************************************)
EXTENDS Naturals, FiniteSets

CONSTANTS Clients, Posts, Null,
          MaxToken,     \* bound: tokens that a platform issues
          MaxAccounts   \* bound: accounts connected at the same time; the
                        \* services of two platforms share nothing

Platforms == {"facebook", "instagram", "linkedin", "tiktok"}

ASSUME CallsAssumption ==
  MaxToken \in Nat \ {0} /\ MaxAccounts \in Nat /\ Null \notin Posts \cup Platforms

Tokens == 0 .. MaxToken

VARIABLES
  account,    \* is there a row for the account of each platform?
  stored,     \* the tokens in social_accounts, numbered as they were issued
  granted,    \* the tokens the platform issued last; 0 if there are none or
              \* they were revoked
  post,       \* each post: on its platform (remote), in its table (row), and
              \* what the caller was told (answer)
  call,       \* the open call of each client
  excused     \* posts whose call was broken off by the database or a crash,
              \* and tiktok posts whose last status was not final; not in the
              \* code

platformVars == <<account, stored, granted, post, call, excused>>

Remote == {"none", "draft", "processing", "live", "rejected"}
Post == [platform : Platforms \cup {Null}, remote : Remote,
         row : {"none", "unpublished", "published"},
         answer : {"none", "ok", "failed"}]
NoPost == [platform |-> Null, remote |-> "none", row |-> "none", answer |-> "none"]

Kinds == {"none", "text", "link", "photo", "video", "photos", "videos", "mixed",
          "one", "many", "story"}
Steps == {"idle", "read", "revoke", "delete", "store", "attach", "carousel",
          "publish", "comment", "record", "refresh", "init", "poll", "status"}
Call == [step : Steps, platform : Platforms \cup {Null}, kind : Kinds,
         draft : BOOLEAN, token : Tokens, post : Posts \cup {Null},
         count : Nat]
NoCall == [step |-> "idle", platform |-> Null, kind |-> "none",
           draft |-> FALSE, token |-> 0, post |-> Null, count |-> 0]

(* The repositories of Instagram and LinkedIn have no createAccount, so    *)
(* that their OAuth callbacks store nothing: their accounts are there from *)
(* the beginning, if at all.                                               *)
CallsInit ==
  /\ account \in {f \in [Platforms -> BOOLEAN] :
        /\ \A p \in Platforms : f[p] => p \in {"instagram", "linkedin"}
        /\ Cardinality({p \in Platforms : f[p]}) <= MaxAccounts}
  /\ stored = [p \in Platforms |-> IF account[p] THEN 1 ELSE 0]
  /\ granted = stored
  /\ post = [x \in Posts |-> NoPost]
  /\ call = [c \in Clients |-> NoCall]
  /\ excused = {}

(* A call begins once it has found the account, with the token it loaded.  *)
Opens(c, p, fields) ==
  /\ call[c].step = "idle"
  /\ account[p]
  /\ call' = [call EXCEPT ![c] = [fields EXCEPT !.platform = p, !.token = stored[p]]]
  /\ UNCHANGED <<account, stored, granted, post, excused>>

At(c, p, step) == call[c].step = step /\ call[c].platform = p

Moves(c, step) ==
  /\ call' = [call EXCEPT ![c].step = step]
  /\ UNCHANGED <<account, stored, granted, post, excused>>

(* A platform serves those who hold a token of an account that is not      *)
(* revoked.  (It may also refuse: CallFails.)                              *)
Grants(c) == call[c].token # 0 /\ granted[call[c].platform] # 0

(* The caller is told how it went. *)
Answered(c, answer) ==
  [x \in Posts |-> IF x = call[c].post THEN [post[x] EXCEPT !.answer = answer] ELSE post[x]]

Ends(c, answer) ==
  /\ post' = Answered(c, answer)
  /\ call' = [call EXCEPT ![c] = NoCall]
  /\ UNCHANGED <<account, stored, granted, excused>>

EndsExcused(c, answer) ==
  /\ post' = Answered(c, answer)
  /\ excused' = excused \cup ({call[c].post} \ {Null})
  /\ call' = [call EXCEPT ![c] = NoCall]
  /\ UNCHANGED <<account, stored, granted>>

(* A call that fails in the code whatever the others do. *)
Throws(c, p) ==
  /\ call[c].step = "idle"
  /\ account[p]
  /\ UNCHANGED platformVars

(* Reading: the account is loaded, then the platform is asked. *)
Reads(c, p) == Opens(c, p, [NoCall EXCEPT !.step = "read"])

AnswerRead(c) == call[c].step = "read" /\ Grants(c) /\ Ends(c, "ok")

(* The platform has accepted a post; it has an id from now on. *)
Publishes(c, x, remote, step) ==
  /\ Grants(c)
  /\ post[x] = NoPost
  /\ post' = [post EXCEPT ![x].platform = call[c].platform, ![x].remote = remote]
  /\ call' = [call EXCEPT ![c].step = step, ![c].post = x]
  /\ UNCHANGED <<account, stored, granted, excused>>

(* Storage, the platform or the database refuses, or the process dies.     *)
CallFails(c) == call[c].step # "idle" /\ EndsExcused(c, "failed")

(* The OAuth callback has stored an account with its tokens. *)
Connected(p) ==
  /\ p \in {"facebook", "tiktok"}
  /\ ~account[p]
  /\ Cardinality({q \in Platforms : account[q]}) < MaxAccounts
  /\ granted[p] < MaxToken
  /\ account' = [account EXCEPT ![p] = TRUE]
  /\ stored' = [stored EXCEPT ![p] = granted[p] + 1]
  /\ granted' = [granted EXCEPT ![p] = granted[p] + 1]
  /\ UNCHANGED <<post, call, excused>>
=============================================================================
