---------------------------- MODULE MicrosoftLogin ----------------------------
(***************************************************************************)
(* Microsoft accounts (auth.tsx): the device login, a loop on a session of *)
(* its own that shares one flag and one reference with the loops before    *)
(* it; the launch session, which rotates the refresh token; the removal of *)
(* an account; and the keychain (credentials.rs).  The list of accounts is *)
(* the core's.  Every await is a step boundary, every call may fail, and   *)
(* the program may be closed at any time.                                  *)
(***************************************************************************)
EXTENDS Naturals

CONSTANTS
  Logins,     \* runs of the device login
  Launches,   \* calls of getLaunchSession
  Accounts,
  MaxTokens,  \* bound on the refresh tokens given out
  None

VARIABLES
  cancelled,  \* cancelledRef
  ref,        \* loginSessionRef: the login whose session it is
  dialog,     \* login is not null: the dialog is open
  logins,     \* logins[l]
  launches,   \* launches[x]
  removal,    \* removeAccount under way
  keychain,   \* the token under each key
  core,       \* account.microsoft.list
  active,     \* settings.activeAccountId
  issued,     \* tokens given out
  spent,      \* history: tokens that were rotated, unless the new one was lost
  crossed     \* history: accounts whose token a removal deleted under a login

vars == <<cancelled, ref, dialog, logins, launches, removal, keychain, core, active, issued, spent,
          crossed>>

\* A refresh token is its account's.
Tokens == [of : Accounts, n : 1 .. MaxTokens]
Keys == Accounts \cup {"pending"}
Idle == [pc |-> "idle", closed |-> FALSE, account |-> None, token |-> None]
NoLaunch == [pc |-> "idle", account |-> None, read |-> None, token |-> None]
Rest == [pc |-> "idle", account |-> None]

TypeOK ==
  /\ cancelled \in BOOLEAN /\ ref \in Logins \cup {None} /\ dialog \in BOOLEAN
  /\ logins \in [Logins -> [pc : {"idle", "open", "begin", "sleep", "poll", "keep", "exchange",
                                  "retry", "token", "clear", "account"},
                            closed : BOOLEAN, account : Accounts \cup {None},
                            token : Tokens \cup {None}]]
  /\ launches \in [Launches -> [pc : {"idle", "get", "exchange", "keep"},
                                account : Accounts \cup {None}, read : Tokens \cup {None},
                                token : Tokens \cup {None}]]
  /\ removal \in [pc : {"idle", "core", "keychain"}, account : Accounts \cup {None}]
  /\ keychain \in [Keys -> Tokens \cup {None}] /\ issued \in 0 .. MaxTokens
  /\ core \in SUBSET Accounts /\ active \in Accounts \cup {None}
  /\ spent \in SUBSET Tokens /\ crossed \in SUBSET Accounts

Fresh == /\ cancelled' = FALSE /\ ref' = None /\ dialog' = FALSE /\ removal' = Rest
         /\ logins' = [l \in Logins |-> Idle] /\ launches' = [x \in Launches |-> NoLaunch]

Init ==
  /\ cancelled = FALSE /\ ref = None /\ dialog = FALSE /\ removal = Rest
  /\ logins = [l \in Logins |-> Idle] /\ launches = [x \in Launches |-> NoLaunch]
  /\ keychain = [k \in Keys |-> None] /\ core = {} /\ active = None /\ issued = 0
  /\ spent = {} /\ crossed = {}

\* credential_set, of one key at a time.
Set(key, token) == keychain' = [keychain EXCEPT ![key] = token] /\ crossed' = crossed \ {key}
Issue == issued < MaxTokens /\ issued' = issued + 1

-----------------------------------------------------------------------------
(* startLogin and cancelLogin.  The dialog is modal.                        *)

kept == <<keychain, issued, crossed>>
stable == <<launches, removal, core, active, spent>>

Start(l) ==
  /\ ref = None /\ ~dialog /\ logins[l].pc = "idle"
  /\ cancelled' = FALSE /\ dialog' = TRUE
  /\ logins' = [logins EXCEPT ![l] = [Idle EXCEPT !.pc = "open"]]
  /\ UNCHANGED <<ref, kept, stable>>

\* A session that is being opened is in no reference yet.
Cancel ==
  /\ dialog
  /\ cancelled' = TRUE /\ ref' = None /\ dialog' = FALSE
  /\ logins' = [l \in Logins |-> IF l = ref THEN [logins[l] EXCEPT !.closed = TRUE] ELSE logins[l]]
  /\ UNCHANGED <<kept, stable>>

Ends(l) == logins' = [logins EXCEPT ![l] = Idle] /\ ref' = None
Goes(l, pc) == logins' = [logins EXCEPT ![l].pc = pc] /\ ref' = ref

\* After an await the loop goes on, and shows the dialog, only while the flag
\* is not set; one that was cancelled and finds another started goes on, too.
Continue(l, pc, shows) ==
  IF cancelled THEN Ends(l) /\ dialog' = dialog ELSE Goes(l, pc) /\ dialog' = shows

\* A step of the loop throws: a request, a session that was closed, the end of
\* the device code, the keychain.
Fails(l) ==
  /\ logins[l].pc # "idle" /\ Ends(l)
  /\ dialog' = IF cancelled THEN dialog ELSE TRUE
  /\ UNCHANGED <<cancelled, kept, stable>>

Opened(l) ==
  /\ logins[l].pc = "open"
  /\ IF cancelled THEN Ends(l) ELSE ref' = l /\ logins' = [logins EXCEPT ![l].pc = "begin"]
  /\ UNCHANGED <<cancelled, dialog, kept, stable>>

Begun(l) ==
  /\ logins[l].pc = "begin" /\ ~logins[l].closed /\ Continue(l, "sleep", TRUE)
  /\ UNCHANGED <<cancelled, kept, stable>>

Slept(l) ==
  /\ logins[l].pc = "sleep" /\ Continue(l, "poll", dialog)
  /\ UNCHANGED <<cancelled, kept, stable>>

\* Pending, slow down, a network error of which six in a row are let pass; or
\* the user has approved, for an account of theirs.
PollAgain(l) ==
  /\ logins[l].pc = "poll" /\ ~logins[l].closed /\ Goes(l, "sleep")
  /\ UNCHANGED <<cancelled, dialog, kept, stable>>
Approved(l, a) ==
  /\ logins[l].pc = "poll" /\ ~logins[l].closed /\ Issue
  /\ logins' = [logins EXCEPT ![l].pc = "keep", ![l].token = [of |-> a, n |-> issued']]
  /\ UNCHANGED <<cancelled, ref, dialog, keychain, crossed, stable>>

KeepPending(l) ==
  /\ logins[l].pc = "keep" /\ Set("pending", logins[l].token)
  /\ Continue(l, "exchange", TRUE)
  /\ UNCHANGED <<cancelled, issued, stable>>

\* The exchange, tried again once after a network error, tells whose token it is.
ExchangeAgain(l) ==
  /\ logins[l].pc = "exchange" /\ ~logins[l].closed /\ ~cancelled /\ Goes(l, "retry")
  /\ UNCHANGED <<cancelled, dialog, kept, stable>>
Exchanged(l) ==
  /\ logins[l].pc \in {"exchange", "retry"} /\ ~logins[l].closed
  /\ IF cancelled THEN Ends(l)
     ELSE /\ logins' = [logins EXCEPT ![l].pc = "token", ![l].account = logins[l].token.of]
          /\ ref' = ref
  /\ UNCHANGED <<cancelled, dialog, kept, stable>>

\* From here on a cancelled login is completed.
SaveToken(l) ==
  /\ logins[l].pc = "token" /\ Set(logins[l].account, logins[l].token) /\ Goes(l, "clear")
  /\ UNCHANGED <<cancelled, dialog, issued, stable>>
ClearPending(l) ==
  /\ logins[l].pc = "clear" /\ Set("pending", None) /\ Goes(l, "account")
  /\ UNCHANGED <<cancelled, dialog, issued, stable>>
SaveAccount(l) ==
  /\ logins[l].pc = "account"
  /\ core' = core \cup {logins[l].account} /\ active' = logins[l].account
  /\ Ends(l) /\ dialog' = (dialog /\ cancelled)
  /\ UNCHANGED <<cancelled, launches, removal, spent, kept>>

-----------------------------------------------------------------------------
(* removeAccount, setActiveAccount.                                         *)

login == <<cancelled, ref, dialog, logins>>

Remove(a) ==
  /\ ~dialog /\ removal = Rest /\ a \in core
  /\ removal' = [pc |-> "core", account |-> a]
  /\ UNCHANGED <<login, launches, core, active, spent, kept>>
RemoveAccount ==
  /\ removal.pc = "core" /\ core' = core \ {removal.account}
  /\ removal' = [removal EXCEPT !.pc = "keychain"]
  /\ UNCHANGED <<login, launches, active, spent, kept>>

\* A login of this account may have been saved meanwhile, or have its token.
LoggedIn(a) ==
  a \in core \/ \E l \in Logins : logins[l].pc \in {"clear", "account"} /\ logins[l].account = a
RemoveToken ==
  /\ removal.pc = "keychain" /\ removal' = Rest
  /\ keychain' = [keychain EXCEPT ![removal.account] = None]
  /\ active' = IF active = removal.account THEN None ELSE active
  /\ crossed' = crossed \cup {a \in {removal.account} : LoggedIn(a)}
  /\ UNCHANGED <<login, launches, core, issued, spent>>
RemovalFails ==
  /\ removal # Rest /\ removal' = Rest
  /\ UNCHANGED <<login, launches, core, active, spent, kept>>
Choose(a) ==
  /\ ~dialog /\ active' = a
  /\ UNCHANGED <<login, launches, removal, core, spent, kept>>

-----------------------------------------------------------------------------
(* getLaunchSession.                                                        *)

accounts == <<removal, core, active>>

Launch(x) ==
  /\ launches[x].pc = "idle" /\ active \in core
  /\ launches' = [launches EXCEPT ![x] = [NoLaunch EXCEPT !.pc = "get", !.account = active]]
  /\ UNCHANGED <<login, accounts, spent, kept>>

\* A rotated token that is dropped before it is kept is lost.
Lost(xs) == {launches[x].read : x \in {y \in xs : launches[y].pc = "keep"}}

LaunchEnds(x) ==
  /\ launches[x].pc # "idle" /\ launches' = [launches EXCEPT ![x] = NoLaunch]
  /\ spent' = spent \ Lost({x})
  /\ UNCHANGED <<login, accounts, kept>>
GetToken(x) ==
  /\ launches[x].pc = "get" /\ keychain[launches[x].account] # None
  /\ launches' = [launches EXCEPT ![x].pc = "exchange", ![x].read = keychain[launches[x].account]]
  /\ UNCHANGED <<login, accounts, spent, kept>>

\* The service rotates the refresh token, whether or not the exchange then
\* succeeds; its answer may come or be lost.
Rotate(x) ==
  /\ launches[x].pc = "exchange" /\ Issue
  /\ launches' = [launches EXCEPT ![x].pc = "keep",
                                  ![x].token = [of |-> launches[x].read.of, n |-> issued']]
  /\ spent' = spent \cup {launches[x].read}
  /\ UNCHANGED <<login, accounts, keychain, crossed>>

\* Slip: it is kept under the account that is chosen now.
KeptSlip(x) == Set(IF active = None THEN launches[x].account ELSE active, launches[x].token)

\* It is kept, under the account the launch began with, before the session or
\* the failure of the exchange is returned.
Kept(x) == Set(launches[x].account, launches[x].token)
KeepRotated(x) ==
  /\ launches[x].pc = "keep" /\ Kept(x)
  /\ launches' = [launches EXCEPT ![x] = NoLaunch]
  /\ UNCHANGED <<login, accounts, issued, spent>>

Restart ==
  /\ Fresh /\ spent' = spent \ Lost(Launches)
  /\ UNCHANGED <<core, active, kept>>

Next ==
  \/ Cancel \/ RemoveAccount \/ RemoveToken \/ RemovalFails \/ Restart
  \/ \E a \in Accounts : Remove(a) \/ \E l \in Logins : Approved(l, a)
  \/ \E a \in core \cup {None} : Choose(a)
  \/ \E l \in Logins : \/ Start(l) \/ Opened(l) \/ Begun(l) \/ Slept(l) \/ PollAgain(l)
                       \/ KeepPending(l) \/ ExchangeAgain(l) \/ Exchanged(l) \/ SaveToken(l)
                       \/ ClearPending(l) \/ SaveAccount(l) \/ Fails(l)
  \/ \E x \in Launches : Launch(x) \/ GetToken(x) \/ Rotate(x) \/ KeepRotated(x) \/ LaunchEnds(x)

Spec == Init /\ [][Next]_vars

-----------------------------------------------------------------------------
(***************************************************************************)
(* A login that was cancelled never opens its dialog again: whatever it    *)
(* was waiting for when the user closed it.  (With the next login the flag *)
(* is reset, and a loop that is still under way goes on.)                  *)
(***************************************************************************)
CancelledStaysClosed == cancelled => ~dialog

(***************************************************************************)
(* A used-up token is in the keychain only while a launch that rotated it  *)
(* has still to keep the new one, also when two launches rotate one token, *)
(* the exchange failed after the rotation, or the account was removed.     *)
(***************************************************************************)
SpentIsReplaced ==
  \A a \in Accounts : keychain[a] \in spent =>
    \E x \in Launches : launches[x].pc = "keep" /\ launches[x].account = a

(***************************************************************************)
(* A token is kept under the account it was given for, whichever account   *)
(* was chosen, removed or logged in during the awaits of the launch or the *)
(* login that brought it.                                                  *)
(***************************************************************************)
TokensAreOwn == \A a \in Accounts : keychain[a] # None => keychain[a].of = a

(***************************************************************************)
(* An account that the core lists has a token, unless a removal of it went *)
(* on while it was logged in again.                                        *)
(***************************************************************************)
ListedHaveTokens == \A a \in core : keychain[a] # None \/ a \in crossed
=============================================================================
