-------------------------------- MODULE Login --------------------------------
(***************************************************************************)
(* CLI logins (admin/cliauth.go with the Login methods of                  *)
(* llm/cliauth/authenticator) across reloads of the configuration          *)
(* (gateway/app.go, admin/module.go).                                      *)
(*                                                                         *)
(* A POST starts a goroutine and answers at once.  The goroutine waits for *)
(* the user, through a callback server on a local port or by polling the   *)
(* vendor, exchanges the code it was given, registers the credential and   *)
(* leaves its outcome in the status table of its handler, one row per CLI  *)
(* name.  A reload builds a new manager and a new handler and does not     *)
(* touch the goroutines of the old ones.                                   *)
(*                                                                         *)
(* A login stands for its PKCE verifier, its OAuth state and the credential *)
(* it builds: all three are fresh random values.                           *)
(***************************************************************************)
EXTENDS Naturals

CONSTANTS
  Logins,       \* the POSTs, each with its goroutine
  Clis,         \* the registered authenticators
  Flow,         \* Flow[cli]: pkce (codex, claude), plain (gemini) or device (codex)
  Ports,        \* TCP ports of the host
  CallbackPort, \* CallbackPort[cli]: where the login's server listens
  RedirectPort, \* RedirectPort[cli]: the port in the redirect URI
  MaxApps,      \* bound on the apps that are provisioned, one after the other
  None          \* no value

ASSUME LoginAssumption ==
  /\ Flow \in [Clis -> {"pkce", "plain", "device"}]
  /\ CallbackPort \in [Clis -> Ports]
  /\ RedirectPort \in [Clis -> Ports]
  /\ MaxApps \in Nat \ {0}
  /\ None \notin Logins /\ None \notin Clis

VARIABLES
  pc,       \* pc[l]: where the goroutine is
  cli,      \* cli[l]: the CLI name of the request
  home,     \* home[l]: the app whose handler and manager the goroutine uses
  code,     \* code[l]: the login that the code in hand was issued for
  port,     \* port[p]: the login whose callback server listens on p
  resultCh, \* resultCh[l]: the one slot of the callback server's channel
  pages,    \* logins whose authorization page or user code the user has
  granted,  \* device logins that the user has approved at the vendor
  spent,    \* codes that the vendor has exchanged
  status,   \* status[a][c]: cliAuthSessions of the handler of app a
  creds,    \* creds[a]: the credentials in the map of the manager of app a
  store,    \* the credentials with a row in the store, which all apps share
  loaded,   \* the latest app that was provisioned
  app,      \* the app that requests reach
  regAt     \* ghost: regAt[l] is the latest app when l was registered

vars == <<pc, cli, home, code, port, resultCh, pages, granted, spent, status, creds,
          store, loaded, app, regAt>>

Apps == 1..MaxApps

PCs == {"new", "login", "wait", "poll", "exchange", "register", "report", "failed", "done"}

Result == [err: BOOLEAN, code: Logins, state: Logins]

Status == [status: {"running", "succeeded", "failed"}, startedBy: Logins]

Init ==
  /\ pc = [l \in Logins |-> "new"]
  /\ cli = [l \in Logins |-> None]
  /\ home = [l \in Logins |-> 1]
  /\ code = [l \in Logins |-> None]
  /\ port = [p \in Ports |-> None]
  /\ resultCh = [l \in Logins |-> None]
  /\ pages = {}
  /\ granted = {}
  /\ spent = {}
  /\ status = [a \in Apps |-> [c \in Clis |-> None]]
  /\ creds = [a \in Apps |-> {}]
  /\ store = {}
  /\ loaded = 1
  /\ app = 1
  /\ regAt = [l \in Logins |-> 0]

rows == <<creds, store, regAt>>
table == <<status, rows>>
apps == <<loaded, app>>
vendor == <<pages, granted, spent>>

-----------------------------------------------------------------------------
(* The handler and the ends of its goroutine *)

StoreStatus(l, s) ==
  status' = [status EXCEPT ![home'[l]][cli'[l]] = [status |-> s, startedBy |-> l]]

\* The refusals of handleCLIAuth (no manager, no name, no such authenticator)
\* change nothing.
HandleCLIAuth(l, c) ==
  /\ pc[l] = "new"
  /\ pc' = [pc EXCEPT ![l] = "login"]
  /\ cli' = [cli EXCEPT ![l] = c]
  /\ home' = [home EXCEPT ![l] = app]
  /\ StoreStatus(l, "running")
  /\ UNCHANGED <<code, port, resultCh, vendor, rows, apps>>

\* Register of the manager that the handler was built with; Manager has its
\* three writes.
Register(l) ==
  /\ pc[l] = "register"
  /\ pc' = [pc EXCEPT ![l] = "report"]
  /\ store' = store \cup {l}
  /\ creds' = [creds EXCEPT ![home[l]] = @ \cup {l}]
  /\ regAt' = [regAt EXCEPT ![l] = loaded]
  /\ UNCHANGED <<cli, home, code, port, resultCh, vendor, status, apps>>

\* Mutant: the outcome is reported whatever Register returned.
RegisterFailsIgnored(l) ==
  /\ pc[l] = "register"
  /\ pc' = [pc EXCEPT ![l] = "report"]
  /\ UNCHANGED <<cli, home, code, port, resultCh, vendor, table, apps>>

\* Create fails before the map is written.
RegisterFails(l) ==
  /\ pc[l] = "register"
  /\ pc' = [pc EXCEPT ![l] = "failed"]
  /\ UNCHANGED <<cli, home, code, port, resultCh, vendor, table, apps>>

Finish(l, from, outcome) ==
  /\ pc[l] = from
  /\ pc' = [pc EXCEPT ![l] = "done"]
  /\ UNCHANGED <<cli, home, code, port, resultCh, vendor, rows, apps>>
  /\ StoreStatus(l, outcome)

ReportSuccess(l) == Finish(l, "report", "succeeded")

ReportFailure(l) == Finish(l, "failed", "failed")

-----------------------------------------------------------------------------
(* The browser flow *)

\* The deferred stop of the callback server runs on every way out of
\* loginWithBrowser; a device login has no server.
Stop(l) == port' = [p \in Ports |-> IF port[p] = l THEN None ELSE port[p]]

\* The port is taken before the URL is shown.
Listen(l) ==
  /\ pc[l] = "login"
  /\ Flow[cli[l]] # "device"
  /\ port[CallbackPort[cli[l]]] = None
  /\ port' = [port EXCEPT ![CallbackPort[cli[l]]] = l]
  /\ pc' = [pc EXCEPT ![l] = "wait"]
  /\ pages' = pages \cup {l}
  /\ UNCHANGED <<cli, home, code, resultCh, granted, spent, table, apps>>

\* The port is in use by another login or by another process.
ListenFails(l) ==
  /\ pc[l] = "login"
  /\ Flow[cli[l]] # "device"
  /\ pc' = [pc EXCEPT ![l] = "failed"]
  /\ UNCHANGED <<cli, home, code, port, resultCh, vendor, table, apps>>

\* Mutant: a callback without a code is not an error.
CallbackResultNoCode(l, err) ==
  [err |-> FALSE, code |-> IF err THEN None ELSE l, state |-> l]

\* An error parameter and a missing code or state are all errors.
CallbackResult(l, err) == [err |-> err, code |-> l, state |-> l]

\* The user finishes or refuses on the page of login l, at once, late or again:
\* the browser is sent to the redirect URI.  Whatever server of that
\* authenticator listens there takes the request, and drops the result when its
\* channel is full.
HandleCallback(l, srv, err) ==
  /\ l \in pages
  /\ port[RedirectPort[cli[l]]] = srv
  /\ cli[srv] = cli[l]
  /\ resultCh' = [resultCh EXCEPT ![srv] =
       IF @ = None THEN CallbackResult(l, err) ELSE @]
  /\ UNCHANGED <<pc, cli, home, code, port, vendor, table, apps>>

\* Mutant: the state of the callback is not looked at.
AcceptsAny(l, r) == ~r.err

\* The gemini flow sends a constant state and does not check it.
Accepts(l, r) == ~r.err /\ (Flow[cli[l]] = "pkce" => r.state = l)

TakeResult(l) ==
  /\ pc[l] = "wait"
  /\ resultCh[l] # None
  /\ Accepts(l, resultCh[l])
  /\ code' = [code EXCEPT ![l] = resultCh[l].code]
  /\ resultCh' = [resultCh EXCEPT ![l] = None]
  /\ pc' = [pc EXCEPT ![l] = "exchange"]
  /\ UNCHANGED <<cli, home, port, vendor, table, apps>>

RefuseResult(l) ==
  /\ pc[l] = "wait"
  /\ resultCh[l] # None
  /\ ~Accepts(l, resultCh[l])
  /\ resultCh' = [resultCh EXCEPT ![l] = None]
  /\ pc' = [pc EXCEPT ![l] = "failed"]
  /\ Stop(l)
  /\ UNCHANGED <<cli, home, code, vendor, table, apps>>

\* Mutant: the server is left running on a timeout.
CallbackTimeoutLeaks(l) ==
  /\ pc[l] = "wait"
  /\ pc' = [pc EXCEPT ![l] = "failed"]
  /\ UNCHANGED <<cli, home, code, port, resultCh, vendor, table, apps>>

\* Mutant: the time limit is only looked at when a callback arrives.
CallbackTimeoutLate(l) ==
  /\ pc[l] = "wait" /\ resultCh[l] # None
  /\ pc' = [pc EXCEPT ![l] = "failed"]
  /\ Stop(l)
  /\ UNCHANGED <<cli, home, code, resultCh, vendor, table, apps>>

\* The select takes either branch when a result is there too.
CallbackTimeout(l) ==
  /\ pc[l] = "wait"
  /\ pc' = [pc EXCEPT ![l] = "failed"]
  /\ Stop(l)
  /\ UNCHANGED <<cli, home, code, resultCh, vendor, table, apps>>

-----------------------------------------------------------------------------
(* The device flow *)

RequestUserCode(l) ==
  /\ pc[l] = "login"
  /\ Flow[cli[l]] = "device"
  /\ pc' = [pc EXCEPT ![l] = "poll"]
  /\ pages' = pages \cup {l}
  /\ UNCHANGED <<cli, home, code, port, resultCh, granted, spent, table, apps>>

RequestUserCodeFails(l) ==
  /\ pc[l] = "login"
  /\ Flow[cli[l]] = "device"
  /\ pc' = [pc EXCEPT ![l] = "failed"]
  /\ UNCHANGED <<cli, home, code, port, resultCh, vendor, table, apps>>

Grant(l) ==
  /\ l \in pages \ granted
  /\ Flow[cli[l]] = "device"
  /\ granted' = granted \cup {l}
  /\ UNCHANGED <<pc, cli, home, code, port, resultCh, pages, spent, table, apps>>

\* A poll that is answered with 403 or 404 changes nothing.
PollSucceeds(l) ==
  /\ pc[l] = "poll"
  /\ l \in granted
  /\ code' = [code EXCEPT ![l] = l]
  /\ pc' = [pc EXCEPT ![l] = "exchange"]
  /\ UNCHANGED <<cli, home, port, resultCh, vendor, table, apps>>

\* The deadline has passed, or a poll ended in any other way.
PollFails(l) ==
  /\ pc[l] = "poll"
  /\ pc' = [pc EXCEPT ![l] = "failed"]
  /\ UNCHANGED <<cli, home, code, port, resultCh, vendor, table, apps>>

-----------------------------------------------------------------------------
(* The end of both flows *)

\* The vendor exchanges a code once, and with PKCE only for the verifier that
\* belongs to it.
VendorTakes(l) == code[l] \notin spent /\ (Flow[cli[l]] = "plain" \/ code[l] = l)

ExchangeCode(l) ==
  /\ pc[l] = "exchange"
  /\ VendorTakes(l)
  /\ spent' = spent \cup {code[l]}
  /\ pc' = [pc EXCEPT ![l] = "register"]
  /\ Stop(l)
  /\ UNCHANGED <<cli, home, code, resultCh, pages, granted, table, apps>>

\* The vendor refuses, or its answer is lost after it took the code.
ExchangeFails(l) ==
  /\ pc[l] = "exchange"
  /\ pc' = [pc EXCEPT ![l] = "failed"]
  /\ spent' \in {spent, IF VendorTakes(l) THEN spent \cup {code[l]} ELSE spent}
  /\ Stop(l)
  /\ UNCHANGED <<cli, home, code, resultCh, pages, granted, table, apps>>

-----------------------------------------------------------------------------
(* Reload *)

\* Mutant: the new manager starts empty.
ProvisionEmpty ==
  /\ loaded < MaxApps
  /\ loaded' = loaded + 1
  /\ UNCHANGED <<pc, cli, home, code, port, resultCh, vendor, table, app>>

\* Caddy provisions a new app, which loads the rows, while requests still
\* reach the old one.  A reload that is given up after that leaves no trace.
Provision ==
  /\ loaded < MaxApps
  /\ loaded' = loaded + 1
  /\ creds' = [creds EXCEPT ![loaded + 1] = store]
  /\ UNCHANGED <<pc, cli, home, code, port, resultCh, vendor, status, store, regAt, app>>

\* From here on requests reach the new app.
Switch ==
  /\ loaded > app
  /\ app' = loaded
  /\ UNCHANGED <<pc, cli, home, code, port, resultCh, vendor, table, loaded>>

-----------------------------------------------------------------------------

Local(l) ==
  \/ Listen(l) \/ ListenFails(l)
  \/ TakeResult(l) \/ RefuseResult(l) \/ CallbackTimeout(l)
  \/ Register(l) \/ RegisterFails(l)
  \/ ReportSuccess(l) \/ ReportFailure(l)

AtVendor(l) ==
  \/ RequestUserCode(l) \/ RequestUserCodeFails(l)
  \/ PollSucceeds(l) \/ PollFails(l)
  \/ ExchangeCode(l) \/ ExchangeFails(l)

User(l) ==
  \/ \E c \in Clis : HandleCLIAuth(l, c)
  \/ \E srv \in Logins, err \in BOOLEAN : HandleCallback(l, srv, err)
  \/ Grant(l)

Next ==
  \/ \E l \in Logins : Local(l) \/ AtVendor(l) \/ User(l)
  \/ Provision
  \/ Switch

\* The goroutine itself goes on; nothing is assumed of the user or the vendor,
\* whom the HTTP client would wait for without a limit.
Fairness == \A l \in Logins : WF_vars(Local(l))

Spec == Init /\ [][Next]_vars /\ Fairness

-----------------------------------------------------------------------------
(* Properties *)

Active(l) == pc[l] \notin {"new", "done"}

\* The login is in an HTTP request to the vendor.
AsksVendor(l) == \/ pc[l] \in {"exchange", "poll"}
                 \/ pc[l] = "login" /\ Flow[cli[l]] = "device"

\* Types of the state.
TypeOK ==
  /\ pc \in [Logins -> PCs]
  /\ cli \in [Logins -> Clis \cup {None}]
  /\ home \in [Logins -> Apps]
  /\ code \in [Logins -> Logins \cup {None}]
  /\ port \in [Ports -> Logins \cup {None}]
  /\ resultCh \in [Logins -> Result \cup {None}]
  /\ pages \subseteq Logins /\ granted \subseteq Logins /\ spent \subseteq Logins
  /\ status \in [Apps -> [Clis -> Status \cup {None}]]
  /\ creds \in [Apps -> SUBSET Logins]
  /\ store \subseteq Logins
  /\ loaded \in Apps /\ app \in Apps
  /\ regAt \in [Logins -> 0..MaxApps]

\* The entry is of a login of that app and name, and is true of it.
EntryIsHonest(a, c, e) ==
  /\ home[e.startedBy] = a /\ cli[e.startedBy] = c
  /\ e.status = "running" => Active(e.startedBy)
  /\ e.status = "succeeded" =>
       pc[e.startedBy] = "done" /\ e.startedBy \in store \cap creds[a]
  /\ e.status = "failed" => pc[e.startedBy] = "done" /\ e.startedBy \notin store

\* However logins for one CLI name overlap and overwrite each other's entries,
\* an entry of the status table is never false: "running" names a login that is
\* under way, "succeeded" one whose credential is in the store and in the manager
\* of the handler, "failed" one that left no credential behind.
\* (handleCLIAuth)
StatusIsHonest ==
  \A a \in Apps, c \in Clis : status[a][c] # None => EntryIsHonest(a, c, status[a][c])

\* A callback port is held exactly by the login that waits at it or exchanges
\* the code it was handed there: no way out of loginWithBrowser leaves a server
\* behind that makes the next login fail, and no two logins share one.
PortsComeBack ==
  \A l \in Logins, p \in Ports :
    port[p] = l <=> /\ pc[l] \in {"wait", "exchange"}
                    /\ Flow[cli[l]] # "device"
                    /\ CallbackPort[cli[l]] = p

\* A codex or claude login only presents the code of its own page to the vendor,
\* although its server also takes callbacks of earlier logins whose pages are
\* still open.
OwnCode ==
  \A l \in Logins :
    pc[l] = "exchange" /\ Flow[cli[l]] # "plain" => code[l] = l

\* Which manager knows which credential: the one whose handler started the
\* login, and those provisioned after it was registered.  A login that outlives
\* a reload is therefore unknown to the app in service.
KnownToItsAppAndLater ==
  \A a \in Apps, l \in store : a <= loaded =>
    (l \in creds[a] <=> home[l] = a \/ regAt[l] < a)

\* Whatever the user does, a login ends and reports, unless it is the vendor
\* that keeps it: the wait for the callback is limited and every other step is
\* the goroutine's own.
EndsOrAtVendor ==
  \A l \in Logins : Active(l) ~> (pc[l] = "done" \/ AsksVendor(l))
=============================================================================
