--------------------------- MODULE FacebookPages ----------------------------
(***************************************************************************)
(* The pages of Facebook accounts: getUserPages brings their rows in line  *)
(* with what Facebook answers, editPage and the job that collects insights *)
(* load a row and save it whole, with the token it was loaded with.  Every *)
(* query is one of the tenant that the field of TenantContext names when   *)
(* the query is built; other requests and sockets set it at any time.      *)
(***************************************************************************)
EXTENDS TenantContext, Sequences

CONSTANTS Accounts, Pages,
          AccountTenant,  \* the tenant of each account; its pages' rows have
                          \* the same
          MaxPageToken,   \* bound: tokens Facebook issues for a page
          MaxPageRows     \* bound: rows of pages

ASSUME PagesAssumption ==
  MaxPageToken \in Nat \ {0} /\ MaxPageRows \in Nat /\ AccountTenant \in [Accounts -> Tenants]

PageTokens == 0 .. MaxPageToken

VARIABLES
  pageToken,   \* the token Facebook issued last for each page
  pages,       \* the rows, in the order they were made; the index is the id
  sync,        \* what each caller holds
  overlapped,  \* pages two callers were busy with at once; not in the code
  hidden       \* pages whose rows were looked for under another tenant than
               \* theirs, and missed; not in the code

pageVars == <<pageToken, pages, sync, overlapped, hidden>>

PageRow == [account : Accounts, page : Pages, token : PageTokens]
NoSync == [step |-> "idle", account |-> Null, tenant |-> Null, found |-> [p \in Pages |-> 0],
           fetched |-> [p \in Pages |-> 0], todo |-> {}, held |-> {}, id |-> 0, token |-> 0]

PagesInit ==
  /\ pageToken = [p \in Pages |-> 1]
  /\ pages = <<>>
  /\ sync = [c \in Callers |-> NoSync]
  /\ overlapped = {} /\ hidden = {}

RowsOf(a, p) == {i \in DOMAIN pages : pages[i].account = a /\ pages[i].page = p}

(* Does a query show what belongs to this account?  Without a tenant it    *)
(* shows the rows of all.                                                  *)
Shows(a) == tenantId \in {Null, AccountTenant[a]}

(* Is anyone else busy with this page? *)
BusyWith(c, p) ==
  \E d \in Callers \ {c} :
    \/ sync[d].step = "fetch"
    \/ sync[d].step = "save" /\ p \in sync[d].todo
    \/ sync[d].step = "loaded" /\ pages[sync[d].id].page = p

(* getUserPages keeps the tenant, which the rows that it makes will have,  *)
(* and finds an account of it ...                                          *)
GetUserPages(c, a) ==
  /\ sync[c].step = "idle"
  /\ Shows(a)
  /\ sync' = [sync EXCEPT ![c] = [NoSync EXCEPT !.step = "find", !.account = a, !.tenant = tenantId]]
  /\ UNCHANGED <<pageToken, pages, overlapped, hidden>>

(* MUTATION: the rows are looked for under another account. *)
GetNoAccountPages(c, found) ==
  /\ sync[c].step = "find"
  /\ sync' = [sync EXCEPT ![c].step = "fetch"]
  /\ UNCHANGED <<pageToken, pages, overlapped, hidden>>

(* ... and then the rows that are there, if the tenant is still the        *)
(* account's.                                                              *)
GetAccountPages(c, found) ==
  LET a == sync[c].account
      there == {p \in Pages : RowsOf(a, p) # {}} IN
  /\ sync[c].step = "find"
  /\ \A p \in Pages : found[p] \in (IF Shows(a) /\ p \in there THEN RowsOf(a, p) ELSE {0})
  /\ hidden' = IF Shows(a) THEN hidden ELSE hidden \cup there
  /\ sync' = [sync EXCEPT ![c].step = "fetch", ![c].found = found]
  /\ UNCHANGED <<pageToken, pages, overlapped>>

(* The pages that come to a write: without a tenant the table refuses a    *)
(* new row, and a known one is looked for under the tenant of now.         *)
Writable(c) ==
  {p \in Pages : IF sync[c].found[p] = 0 THEN sync[c].tenant # Null ELSE Shows(sync[c].account)}

(* MUTATION: the answer may be one of an earlier time. *)
FetchSomePages(c) ==
  /\ sync[c].step = "fetch"
  /\ \E fetched \in [Pages -> PageTokens] :
       /\ \A p \in Pages : fetched[p] <= pageToken[p]
       /\ sync' = [sync EXCEPT ![c].step = "save", ![c].todo = Writable(c), ![c].fetched = fetched]
  /\ UNCHANGED <<pageToken, pages, overlapped, hidden>>

(* Facebook answers with the pages as it has them, and the operations on   *)
(* all of them are started together, ...                                   *)
FetchPages(c) ==
  /\ sync[c].step = "fetch"
  /\ sync' = [sync EXCEPT ![c].step = "save", ![c].todo = Writable(c), ![c].fetched = pageToken]
  /\ UNCHANGED <<pageToken, pages, overlapped, hidden>>

(* ... to be done in any order: a row is made, ...                         *)
CreatePage(c, p) ==
  /\ sync[c].step = "save"
  /\ p \in sync[c].todo
  /\ sync[c].found[p] = 0
  /\ Len(pages) < MaxPageRows
  /\ pages' = Append(pages, [account |-> sync[c].account, page |-> p, token |-> sync[c].fetched[p]])
  /\ sync' = [sync EXCEPT ![c].todo = @ \ {p}]
  /\ overlapped' = IF BusyWith(c, p) THEN overlapped \cup {p} ELSE overlapped
  /\ UNCHANGED <<pageToken, hidden>>

(* ... or, by updatePage, loaded ...                                       *)
FindPage(c, p) ==
  /\ sync[c].step = "save"
  /\ p \in sync[c].todo \ sync[c].held
  /\ sync[c].found[p] # 0
  /\ sync' = [sync EXCEPT ![c].held = @ \cup {p}]
  /\ UNCHANGED <<pageToken, pages, overlapped, hidden>>

(* ... and saved, with the token that Facebook answered.                   *)
UpdatePage(c, p) ==
  /\ sync[c].step = "save"
  /\ p \in sync[c].todo \cap sync[c].held
  /\ sync[c].found[p] # 0
  /\ pages' = [pages EXCEPT ![sync[c].found[p]].token = sync[c].fetched[p]]
  /\ sync' = [sync EXCEPT ![c].todo = @ \ {p}, ![c].held = @ \ {p}]
  /\ overlapped' = IF BusyWith(c, p) THEN overlapped \cup {p} ELSE overlapped
  /\ UNCHANGED <<pageToken, hidden>>

(* One failing operation fails the call; the others go on behind it.       *)
PageOperationFails(c, p) ==
  /\ sync[c].step = "save"
  /\ p \in sync[c].todo
  /\ sync' = [sync EXCEPT ![c].todo = @ \ {p}, ![c].held = @ \ {p}]
  /\ UNCHANGED <<pageToken, pages, overlapped, hidden>>

GotUserPages(c) ==
  /\ sync[c].step = "save"
  /\ sync[c].todo = {}
  /\ sync' = [sync EXCEPT ![c] = NoSync]
  /\ UNCHANGED <<pageToken, pages, overlapped, hidden>>

(* editPage finds the row and changes the page on Facebook first.  The job *)
(* asks for the insights of the page first.                                *)
EditPage(c, i) ==
  /\ sync[c].step = "idle"
  /\ i \in DOMAIN pages
  /\ Shows(pages[i].account)
  /\ sync' = [sync EXCEPT ![c] = [NoSync EXCEPT !.step = "edit", !.id = i]]
  /\ UNCHANGED <<pageToken, pages, overlapped, hidden>>

CollectPageInsights(c, i) == EditPage(c, i)

(* MUTATION: the token is not selected. *)
LoadPageWithoutToken(c) ==
  /\ sync[c].step = "edit"
  /\ Shows(pages[sync[c].id].account)
  /\ sync' = [sync EXCEPT ![c].step = "loaded", ![c].token = Null]
  /\ UNCHANGED <<pageToken, pages, overlapped, hidden>>

(* updatePage, updatePageMetrics: the row is loaded and then saved.        *)
LoadPage(c) ==
  /\ sync[c].step = "edit"
  /\ Shows(pages[sync[c].id].account)
  /\ sync' = [sync EXCEPT ![c].step = "loaded", ![c].token = pages[sync[c].id].token]
  /\ UNCHANGED <<pageToken, pages, overlapped, hidden>>

SavePage(c) ==
  /\ sync[c].step = "loaded"
  /\ pages' = [pages EXCEPT ![sync[c].id].token = sync[c].token]
  /\ sync' = [sync EXCEPT ![c] = NoSync]
  /\ overlapped' = IF BusyWith(c, pages[sync[c].id].page)
                   THEN overlapped \cup {pages[sync[c].id].page} ELSE overlapped
  /\ UNCHANGED <<pageToken, hidden>>

(* Facebook or the database refuses, the row is not shown, or the process  *)
(* dies.                                                                   *)
SyncFails(c) ==
  /\ sync[c].step # "idle"
  /\ sync' = [sync EXCEPT ![c] = NoSync]
  /\ UNCHANGED <<pageToken, pages, overlapped, hidden>>

(* Facebook issues a new token for a page. *)
RotatePageToken(p) ==
  /\ pageToken[p] < MaxPageToken
  /\ pageToken' = [pageToken EXCEPT ![p] = @ + 1]
  /\ UNCHANGED <<pages, sync, overlapped, hidden>>

(* What is asked for pages, and what Facebook does. *)
PagesStep ==
  \/ \E c \in Callers :
       \/ \E a \in Accounts : GetUserPages(c, a)
       \/ \E found \in [Pages -> 0 .. Len(pages)] : GetAccountPages(c, found)
       \/ FetchPages(c)
       \/ \E p \in Pages : \/ CreatePage(c, p) \/ FindPage(c, p) \/ UpdatePage(c, p)
                          \/ PageOperationFails(c, p)
       \/ GotUserPages(c)
       \/ \E i \in DOMAIN pages : EditPage(c, i) \/ CollectPageInsights(c, i)
       \/ LoadPage(c) \/ SavePage(c) \/ SyncFails(c)
  \/ \E p \in Pages : RotatePageToken(p)

(* Whoever else comes sets the field. *)
OthersSetTenant == (\E t \in Tenants : ConnectSocket(t)) \/ UseNoTenant

PagesNext ==
  \/ PagesStep /\ UNCHANGED tenantVars
  \/ OthersSetTenant /\ UNCHANGED pageVars

PagesSpec == TenantInit /\ PagesInit /\ [][PagesNext]_<<tenantVars, pageVars>>

-----------------------------------------------------------------------------
(* Properties. *)

PagesTypeOK ==
  /\ pageToken \in [Pages -> PageTokens]
  /\ pages \in Seq(PageRow) /\ Len(pages) <= MaxPageRows
  /\ sync \in [Callers -> [step : {"idle", "find", "fetch", "save", "edit", "loaded"},
                account : Accounts \cup {Null}, tenant : Tenants \cup {Null},
                found : [Pages -> 0 .. MaxPageRows], fetched : [Pages -> PageTokens],
                todo : SUBSET Pages, held : SUBSET Pages,
                id : 0 .. MaxPageRows, token : PageTokens]]
  /\ overlapped \subseteq Pages /\ hidden \subseteq Pages

(* getUserPages: an account has one row for a page, although no column is  *)
(* unique, rows are looked for long before they are made and the tenant is *)
(* read anew for each query; unless two callers were busy with the page at *)
(* once, or another tenant's request came before the look-up.              *)
OneRowPerPage ==
  \A i, j \in DOMAIN pages :
    pages[i].account = pages[j].account /\ pages[i].page = pages[j].page
      => i = j \/ pages[i].page \in overlapped \cup hidden

(* updatePage, updatePageMetrics: no save puts an older token back into    *)
(* the row of a page, unless another caller was busy with the page.        *)
TokenStands ==
  [][\A i \in DOMAIN pages : pages'[i].token < pages[i].token => pages[i].page \in overlapped']_pageVars
=============================================================================
