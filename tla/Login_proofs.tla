---------------------------- MODULE Login_proofs ----------------------------
(***************************************************************************)
(* The safety properties of Login for any number of logins,                *)
(* authenticators, ports and reloads.                                      *)
(*                                                                         *)
(* TypeOK needs only Coded.  The others are proved in the order in which *)
(* they rest on each other: Flows ties where a login is to its flow, Owned *)
(* is about the callback and its code, Rows about the credentials, and     *)
(* StatusIsHonest needs Flows and Rows.                                    *)
(***************************************************************************)
EXTENDS Login, TLAPS

\* Only a login that has begun has a CLI name, its app has been provisioned, and
\* only a browser login waits for a callback.
Flows ==
  /\ app <= loaded
  /\ \A l \in Logins :
       /\ home[l] <= loaded
       /\ pc[l] # "new" => cli[l] \in Clis
       /\ pc[l] = "wait" => Flow[cli[l]] # "device"
       /\ pc[l] = "poll" => Flow[cli[l]] = "device"

\* A login that exchanges a code has one.
Coded == \A l \in Logins : pc[l] = "exchange" => code[l] \in Logins

\* A callback carries the code and the state of one and the same page.
Owned ==
  /\ \A l \in Logins : resultCh[l] # None => resultCh[l].code = resultCh[l].state
  /\ OwnCode

\* Rows appear with the report of a login still to come, and managers know
\* nothing but rows.
Rows ==
  /\ \A l \in Logins :
       /\ l \in store => pc[l] \in {"report", "done"} /\ regAt[l] <= loaded
       /\ pc[l] = "report" => l \in store
  /\ \A a \in Apps : creds[a] \subseteq store
  /\ KnownToItsAppAndLater

-----------------------------------------------------------------------------
(* Types *)

\* At first every variable has its type.
LEMMA TypeInit == Init => TypeOK /\ Coded
BY LoginAssumption DEF Init, TypeOK, Coded, Apps, PCs

\* One step of any kind keeps the types.
LEMMA TypeNext ==
  ASSUME TypeOK, Coded, [Next]_vars
  PROVE  TypeOK' /\ Coded'
<1> USE LoginAssumption DEF TypeOK, Coded, Apps, PCs, vendor, table, rows, apps
<1>1. ASSUME NEW l \in Logins, Listen(l) PROVE TypeOK' /\ Coded'
  BY <1>1 DEF Listen
<1>2. ASSUME NEW l \in Logins, ListenFails(l) PROVE TypeOK' /\ Coded'
  BY <1>2 DEF ListenFails
<1>3. ASSUME NEW l \in Logins, TakeResult(l) PROVE TypeOK' /\ Coded'
  BY <1>3 DEF TakeResult, Result
<1>4. ASSUME NEW l \in Logins, RefuseResult(l) PROVE TypeOK' /\ Coded'
  BY <1>4 DEF RefuseResult, Stop
<1>5. ASSUME NEW l \in Logins, CallbackTimeout(l) PROVE TypeOK' /\ Coded'
  BY <1>5 DEF CallbackTimeout, Stop
<1>6. ASSUME NEW l \in Logins, Register(l) PROVE TypeOK' /\ Coded'
  BY <1>6 DEF Register
<1>7. ASSUME NEW l \in Logins, RegisterFails(l) PROVE TypeOK' /\ Coded'
  BY <1>7 DEF RegisterFails
<1>8. ASSUME NEW l \in Logins, ReportSuccess(l) PROVE TypeOK' /\ Coded'
  BY <1>8 DEF ReportSuccess, Finish, StoreStatus, Status
<1>9. ASSUME NEW l \in Logins, ReportFailure(l) PROVE TypeOK' /\ Coded'
  BY <1>9 DEF ReportFailure, Finish, StoreStatus, Status
<1>10. ASSUME NEW l \in Logins, RequestUserCode(l) PROVE TypeOK' /\ Coded'
  BY <1>10 DEF RequestUserCode
<1>11. ASSUME NEW l \in Logins, RequestUserCodeFails(l) PROVE TypeOK' /\ Coded'
  BY <1>11 DEF RequestUserCodeFails
<1>12. ASSUME NEW l \in Logins, PollSucceeds(l) PROVE TypeOK' /\ Coded'
  BY <1>12 DEF PollSucceeds
<1>13. ASSUME NEW l \in Logins, PollFails(l) PROVE TypeOK' /\ Coded'
  BY <1>13 DEF PollFails
<1>14. ASSUME NEW l \in Logins, ExchangeCode(l) PROVE TypeOK' /\ Coded'
  BY <1>14 DEF ExchangeCode, VendorTakes, Stop
<1>15. ASSUME NEW l \in Logins, ExchangeFails(l) PROVE TypeOK' /\ Coded'
  BY <1>15 DEF ExchangeFails, VendorTakes, Stop
<1>16. ASSUME NEW l \in Logins, NEW c \in Clis, HandleCLIAuth(l, c) PROVE TypeOK' /\ Coded'
  BY <1>16 DEF HandleCLIAuth, StoreStatus, Status
<1>17. ASSUME NEW l \in Logins, NEW srv \in Logins, NEW err \in BOOLEAN,
              HandleCallback(l, srv, err)
       PROVE TypeOK' /\ Coded'
  BY <1>17 DEF HandleCallback, CallbackResult, Result
<1>18. ASSUME NEW l \in Logins, Grant(l) PROVE TypeOK' /\ Coded'
  BY <1>18 DEF Grant
<1>19. CASE Provision
  BY <1>19 DEF Provision
<1>20. CASE Switch
  BY <1>20 DEF Switch
<1>21. CASE UNCHANGED vars
  BY <1>21 DEF vars
<1> HIDE LoginAssumption DEF TypeOK, Coded, Apps, PCs, vendor, table, rows, apps
<1> QED
  BY <1>1, <1>2, <1>3, <1>4, <1>5, <1>6, <1>7, <1>8, <1>9, <1>10, <1>11, <1>12, <1>13,
     <1>14, <1>15, <1>16, <1>17, <1>18, <1>19, <1>20, <1>21
     DEF Next, Local, AtVendor, User

\* Every variable keeps its type, whatever the bounds are.
THEOREM LoginTypeCorrect == Spec => []TypeOK
<1>1. TypeOK /\ Coded /\ [Next]_vars => (TypeOK /\ Coded)'
  BY TypeNext
<1> QED
  BY TypeInit, <1>1, PTL DEF Spec

-----------------------------------------------------------------------------
(* Flows and ports *)

\* Where a login is fits its flow, after every step.
LEMMA FlowsNext ==
  ASSUME TypeOK, Flows, [Next]_vars
  PROVE  Flows'
<1> USE LoginAssumption DEF TypeOK, Flows, Apps, PCs, vendor, table, rows, apps
<1>1. ASSUME NEW l \in Logins, Listen(l) PROVE Flows'
  BY <1>1 DEF Listen
<1>2. ASSUME NEW l \in Logins, ListenFails(l) PROVE Flows'
  BY <1>2 DEF ListenFails
<1>3. ASSUME NEW l \in Logins, TakeResult(l) PROVE Flows'
  BY <1>3 DEF TakeResult
<1>4. ASSUME NEW l \in Logins, RefuseResult(l) PROVE Flows'
  BY <1>4 DEF RefuseResult, Stop
<1>5. ASSUME NEW l \in Logins, CallbackTimeout(l) PROVE Flows'
  BY <1>5 DEF CallbackTimeout, Stop
<1>6. ASSUME NEW l \in Logins, Register(l) PROVE Flows'
  BY <1>6 DEF Register
<1>7. ASSUME NEW l \in Logins, RegisterFails(l) PROVE Flows'
  BY <1>7 DEF RegisterFails
<1>8. ASSUME NEW l \in Logins, ReportSuccess(l) PROVE Flows'
  BY <1>8 DEF ReportSuccess, Finish
<1>9. ASSUME NEW l \in Logins, ReportFailure(l) PROVE Flows'
  BY <1>9 DEF ReportFailure, Finish
<1>10. ASSUME NEW l \in Logins, RequestUserCode(l) PROVE Flows'
  BY <1>10 DEF RequestUserCode
<1>11. ASSUME NEW l \in Logins, RequestUserCodeFails(l) PROVE Flows'
  BY <1>11 DEF RequestUserCodeFails
<1>12. ASSUME NEW l \in Logins, PollSucceeds(l) PROVE Flows'
  BY <1>12 DEF PollSucceeds
<1>13. ASSUME NEW l \in Logins, PollFails(l) PROVE Flows'
  BY <1>13 DEF PollFails
<1>14. ASSUME NEW l \in Logins, ExchangeCode(l) PROVE Flows'
  BY <1>14 DEF ExchangeCode, VendorTakes, Stop
<1>15. ASSUME NEW l \in Logins, ExchangeFails(l) PROVE Flows'
  BY <1>15 DEF ExchangeFails, VendorTakes, Stop
<1>16. ASSUME NEW l \in Logins, NEW c \in Clis, HandleCLIAuth(l, c) PROVE Flows'
  BY <1>16 DEF HandleCLIAuth
<1>17. ASSUME NEW l \in Logins, NEW srv \in Logins, NEW err \in BOOLEAN,
              HandleCallback(l, srv, err)
       PROVE Flows'
  BY <1>17 DEF HandleCallback
<1>18. ASSUME NEW l \in Logins, Grant(l) PROVE Flows'
  BY <1>18 DEF Grant
<1>19. CASE Provision
  BY <1>19 DEF Provision
<1>20. CASE Switch
  BY <1>20 DEF Switch
<1>21. CASE UNCHANGED vars
  BY <1>21 DEF vars
<1> HIDE LoginAssumption DEF TypeOK, Flows, Apps, PCs, vendor, table, rows, apps
<1> QED
  BY <1>1, <1>2, <1>3, <1>4, <1>5, <1>6, <1>7, <1>8, <1>9, <1>10, <1>11, <1>12, <1>13,
     <1>14, <1>15, <1>16, <1>17, <1>18, <1>19, <1>20, <1>21
     DEF Next, Local, AtVendor, User

\* Every way out of a browser flow gives the port back.
LEMMA PortsNext ==
  ASSUME TypeOK, Flows, PortsComeBack, [Next]_vars
  PROVE  PortsComeBack'
<1> USE LoginAssumption DEF TypeOK, Flows, PortsComeBack, Apps, PCs, vendor, table, rows, apps
<1>1. ASSUME NEW l \in Logins, Listen(l) PROVE PortsComeBack'
  BY <1>1 DEF Listen
<1>2. ASSUME NEW l \in Logins, ListenFails(l) PROVE PortsComeBack'
  BY <1>2 DEF ListenFails
<1>3. ASSUME NEW l \in Logins, TakeResult(l) PROVE PortsComeBack'
  BY <1>3 DEF TakeResult
<1>4. ASSUME NEW l \in Logins, RefuseResult(l) PROVE PortsComeBack'
  BY <1>4 DEF RefuseResult, Stop
<1>5. ASSUME NEW l \in Logins, CallbackTimeout(l) PROVE PortsComeBack'
  BY <1>5 DEF CallbackTimeout, Stop
<1>6. ASSUME NEW l \in Logins, Register(l) PROVE PortsComeBack'
  BY <1>6 DEF Register
<1>7. ASSUME NEW l \in Logins, RegisterFails(l) PROVE PortsComeBack'
  BY <1>7 DEF RegisterFails
<1>8. ASSUME NEW l \in Logins, ReportSuccess(l) PROVE PortsComeBack'
  BY <1>8 DEF ReportSuccess, Finish
<1>9. ASSUME NEW l \in Logins, ReportFailure(l) PROVE PortsComeBack'
  BY <1>9 DEF ReportFailure, Finish
<1>10. ASSUME NEW l \in Logins, RequestUserCode(l) PROVE PortsComeBack'
  BY <1>10 DEF RequestUserCode
<1>11. ASSUME NEW l \in Logins, RequestUserCodeFails(l) PROVE PortsComeBack'
  BY <1>11 DEF RequestUserCodeFails
<1>12. ASSUME NEW l \in Logins, PollSucceeds(l) PROVE PortsComeBack'
  BY <1>12 DEF PollSucceeds
<1>13. ASSUME NEW l \in Logins, PollFails(l) PROVE PortsComeBack'
  BY <1>13 DEF PollFails
<1>14. ASSUME NEW l \in Logins, ExchangeCode(l) PROVE PortsComeBack'
  BY <1>14 DEF ExchangeCode, VendorTakes, Stop
<1>15. ASSUME NEW l \in Logins, ExchangeFails(l) PROVE PortsComeBack'
  BY <1>15 DEF ExchangeFails, VendorTakes, Stop
<1>16. ASSUME NEW l \in Logins, NEW c \in Clis, HandleCLIAuth(l, c) PROVE PortsComeBack'
  BY <1>16 DEF HandleCLIAuth
<1>17. ASSUME NEW l \in Logins, NEW srv \in Logins, NEW err \in BOOLEAN,
              HandleCallback(l, srv, err)
       PROVE PortsComeBack'
  BY <1>17 DEF HandleCallback
<1>18. ASSUME NEW l \in Logins, Grant(l) PROVE PortsComeBack'
  BY <1>18 DEF Grant
<1>19. CASE Provision
  BY <1>19 DEF Provision
<1>20. CASE Switch
  BY <1>20 DEF Switch
<1>21. CASE UNCHANGED vars
  BY <1>21 DEF vars
<1> HIDE LoginAssumption DEF TypeOK, Flows, PortsComeBack, Apps, PCs, vendor, table, rows, apps
<1> QED
  BY <1>1, <1>2, <1>3, <1>4, <1>5, <1>6, <1>7, <1>8, <1>9, <1>10, <1>11, <1>12, <1>13,
     <1>14, <1>15, <1>16, <1>17, <1>18, <1>19, <1>20, <1>21
     DEF Next, Local, AtVendor, User

-----------------------------------------------------------------------------
(* Codes *)

\* The code in hand stays that of the login's own page.
LEMMA OwnedNext ==
  ASSUME TypeOK, Flows, Owned, [Next]_vars
  PROVE  Owned'
<1> USE LoginAssumption DEF TypeOK, Flows, Owned, OwnCode, Apps, PCs, vendor, table, rows, apps
<1>1. ASSUME NEW l \in Logins, Listen(l) PROVE Owned'
  BY <1>1 DEF Listen
<1>2. ASSUME NEW l \in Logins, ListenFails(l) PROVE Owned'
  BY <1>2 DEF ListenFails
<1>3. ASSUME NEW l \in Logins, TakeResult(l) PROVE Owned'
  BY <1>3 DEF TakeResult, Accepts, Result
<1>4. ASSUME NEW l \in Logins, RefuseResult(l) PROVE Owned'
  BY <1>4 DEF RefuseResult, Stop
<1>5. ASSUME NEW l \in Logins, CallbackTimeout(l) PROVE Owned'
  BY <1>5 DEF CallbackTimeout, Stop
<1>6. ASSUME NEW l \in Logins, Register(l) PROVE Owned'
  BY <1>6 DEF Register
<1>7. ASSUME NEW l \in Logins, RegisterFails(l) PROVE Owned'
  BY <1>7 DEF RegisterFails
<1>8. ASSUME NEW l \in Logins, ReportSuccess(l) PROVE Owned'
  BY <1>8 DEF ReportSuccess, Finish
<1>9. ASSUME NEW l \in Logins, ReportFailure(l) PROVE Owned'
  BY <1>9 DEF ReportFailure, Finish
<1>10. ASSUME NEW l \in Logins, RequestUserCode(l) PROVE Owned'
  BY <1>10 DEF RequestUserCode
<1>11. ASSUME NEW l \in Logins, RequestUserCodeFails(l) PROVE Owned'
  BY <1>11 DEF RequestUserCodeFails
<1>12. ASSUME NEW l \in Logins, PollSucceeds(l) PROVE Owned'
  BY <1>12 DEF PollSucceeds
<1>13. ASSUME NEW l \in Logins, PollFails(l) PROVE Owned'
  BY <1>13 DEF PollFails
<1>14. ASSUME NEW l \in Logins, ExchangeCode(l) PROVE Owned'
  BY <1>14 DEF ExchangeCode, VendorTakes, Stop
<1>15. ASSUME NEW l \in Logins, ExchangeFails(l) PROVE Owned'
  BY <1>15 DEF ExchangeFails, VendorTakes, Stop
<1>16. ASSUME NEW l \in Logins, NEW c \in Clis, HandleCLIAuth(l, c) PROVE Owned'
  BY <1>16 DEF HandleCLIAuth
<1>17. ASSUME NEW l \in Logins, NEW srv \in Logins, NEW err \in BOOLEAN,
              HandleCallback(l, srv, err)
       PROVE Owned'
  BY <1>17 DEF HandleCallback, CallbackResult, Result
<1>18. ASSUME NEW l \in Logins, Grant(l) PROVE Owned'
  BY <1>18 DEF Grant
<1>19. CASE Provision
  BY <1>19 DEF Provision
<1>20. CASE Switch
  BY <1>20 DEF Switch
<1>21. CASE UNCHANGED vars
  BY <1>21 DEF vars
<1> HIDE LoginAssumption DEF TypeOK, Flows, Owned, OwnCode, Apps, PCs, vendor, table, rows, apps
<1> QED
  BY <1>1, <1>2, <1>3, <1>4, <1>5, <1>6, <1>7, <1>8, <1>9, <1>10, <1>11, <1>12, <1>13,
     <1>14, <1>15, <1>16, <1>17, <1>18, <1>19, <1>20, <1>21
     DEF Next, Local, AtVendor, User

-----------------------------------------------------------------------------
(* Rows and managers *)

\* Rows and maps stay in step across registrations and reloads.
LEMMA RowsNext ==
  ASSUME TypeOK, Flows, Rows, [Next]_vars
  PROVE  Rows'
<1> USE LoginAssumption DEF TypeOK, Flows, Rows, KnownToItsAppAndLater, Apps, PCs, vendor, table,
      rows, apps
<1>1. ASSUME NEW l \in Logins, Listen(l) PROVE Rows'
  BY <1>1 DEF Listen
<1>2. ASSUME NEW l \in Logins, ListenFails(l) PROVE Rows'
  BY <1>2 DEF ListenFails
<1>3. ASSUME NEW l \in Logins, TakeResult(l) PROVE Rows'
  BY <1>3 DEF TakeResult
<1>4. ASSUME NEW l \in Logins, RefuseResult(l) PROVE Rows'
  BY <1>4 DEF RefuseResult, Stop
<1>5. ASSUME NEW l \in Logins, CallbackTimeout(l) PROVE Rows'
  BY <1>5 DEF CallbackTimeout, Stop
<1>6. ASSUME NEW l \in Logins, Register(l) PROVE Rows'
  BY <1>6 DEF Register
<1>7. ASSUME NEW l \in Logins, RegisterFails(l) PROVE Rows'
  BY <1>7 DEF RegisterFails
<1>8. ASSUME NEW l \in Logins, ReportSuccess(l) PROVE Rows'
  BY <1>8 DEF ReportSuccess, Finish
<1>9. ASSUME NEW l \in Logins, ReportFailure(l) PROVE Rows'
  BY <1>9 DEF ReportFailure, Finish
<1>10. ASSUME NEW l \in Logins, RequestUserCode(l) PROVE Rows'
  BY <1>10 DEF RequestUserCode
<1>11. ASSUME NEW l \in Logins, RequestUserCodeFails(l) PROVE Rows'
  BY <1>11 DEF RequestUserCodeFails
<1>12. ASSUME NEW l \in Logins, PollSucceeds(l) PROVE Rows'
  BY <1>12 DEF PollSucceeds
<1>13. ASSUME NEW l \in Logins, PollFails(l) PROVE Rows'
  BY <1>13 DEF PollFails
<1>14. ASSUME NEW l \in Logins, ExchangeCode(l) PROVE Rows'
  BY <1>14 DEF ExchangeCode, VendorTakes, Stop
<1>15. ASSUME NEW l \in Logins, ExchangeFails(l) PROVE Rows'
  BY <1>15 DEF ExchangeFails, VendorTakes, Stop
<1>16. ASSUME NEW l \in Logins, NEW c \in Clis, HandleCLIAuth(l, c) PROVE Rows'
  BY <1>16 DEF HandleCLIAuth
<1>17. ASSUME NEW l \in Logins, NEW srv \in Logins, NEW err \in BOOLEAN,
              HandleCallback(l, srv, err)
       PROVE Rows'
  BY <1>17 DEF HandleCallback
<1>18. ASSUME NEW l \in Logins, Grant(l) PROVE Rows'
  BY <1>18 DEF Grant
<1>19. CASE Provision
  BY <1>19 DEF Provision
<1>20. CASE Switch
  BY <1>20 DEF Switch
<1>21. CASE UNCHANGED vars
  BY <1>21 DEF vars
<1> HIDE LoginAssumption DEF TypeOK, Flows, Rows, KnownToItsAppAndLater, Apps, PCs, vendor, table,
      rows, apps
<1> QED
  BY <1>1, <1>2, <1>3, <1>4, <1>5, <1>6, <1>7, <1>8, <1>9, <1>10, <1>11, <1>12, <1>13,
     <1>14, <1>15, <1>16, <1>17, <1>18, <1>19, <1>20, <1>21
     DEF Next, Local, AtVendor, User

-----------------------------------------------------------------------------
(* The status table *)

\* No step makes an entry of the status table false.
LEMMA StatusNext ==
  ASSUME TypeOK, Flows, Rows, StatusIsHonest, [Next]_vars
  PROVE  StatusIsHonest'
<1> USE LoginAssumption DEF TypeOK, Flows, Rows, KnownToItsAppAndLater, StatusIsHonest,
      EntryIsHonest, Active, Apps, PCs, Status, vendor, table, rows,
      apps
<1>1. ASSUME NEW l \in Logins, Listen(l) PROVE StatusIsHonest'
  BY <1>1 DEF Listen
<1>2. ASSUME NEW l \in Logins, ListenFails(l) PROVE StatusIsHonest'
  BY <1>2 DEF ListenFails
<1>3. ASSUME NEW l \in Logins, TakeResult(l) PROVE StatusIsHonest'
  BY <1>3 DEF TakeResult
<1>4. ASSUME NEW l \in Logins, RefuseResult(l) PROVE StatusIsHonest'
  BY <1>4 DEF RefuseResult, Stop
<1>5. ASSUME NEW l \in Logins, CallbackTimeout(l) PROVE StatusIsHonest'
  BY <1>5 DEF CallbackTimeout, Stop
<1>6. ASSUME NEW l \in Logins, Register(l) PROVE StatusIsHonest'
  BY <1>6 DEF Register
<1>7. ASSUME NEW l \in Logins, RegisterFails(l) PROVE StatusIsHonest'
  BY <1>7 DEF RegisterFails
<1>8. ASSUME NEW l \in Logins, ReportSuccess(l) PROVE StatusIsHonest'
  BY <1>8 DEF ReportSuccess, Finish, StoreStatus
<1>9. ASSUME NEW l \in Logins, ReportFailure(l) PROVE StatusIsHonest'
  <2> SUFFICES ASSUME NEW a \in Apps, NEW c \in Clis, status'[a][c] # None
               PROVE  EntryIsHonest(a, c, status[a][c])'
    OBVIOUS
  <2>1. pc[l] = "failed" /\ l \notin store /\ cli[l] \in Clis
    BY <1>9 DEF ReportFailure, Finish
  <2>2. CASE a = home[l] /\ c = cli[l]
    <3>1. status'[a][c] = [status |-> "failed", startedBy |-> l]
      BY <1>9, <2>1, <2>2 DEF ReportFailure, Finish, StoreStatus
    <3> QED
      BY <1>9, <2>1, <2>2, <3>1 DEF ReportFailure, Finish
  <2>3. CASE ~(a = home[l] /\ c = cli[l])
    <3>1. status'[a][c] = status[a][c]
      BY <1>9, <2>1, <2>3 DEF ReportFailure, Finish, StoreStatus
    <3> QED
      BY <1>9, <2>1, <2>3, <3>1 DEF ReportFailure, Finish
  <2> QED
    BY <2>2, <2>3
<1>10. ASSUME NEW l \in Logins, RequestUserCode(l) PROVE StatusIsHonest'
  BY <1>10 DEF RequestUserCode
<1>11. ASSUME NEW l \in Logins, RequestUserCodeFails(l) PROVE StatusIsHonest'
  BY <1>11 DEF RequestUserCodeFails
<1>12. ASSUME NEW l \in Logins, PollSucceeds(l) PROVE StatusIsHonest'
  BY <1>12 DEF PollSucceeds
<1>13. ASSUME NEW l \in Logins, PollFails(l) PROVE StatusIsHonest'
  BY <1>13 DEF PollFails
<1>14. ASSUME NEW l \in Logins, ExchangeCode(l) PROVE StatusIsHonest'
  BY <1>14 DEF ExchangeCode, VendorTakes, Stop
<1>15. ASSUME NEW l \in Logins, ExchangeFails(l) PROVE StatusIsHonest'
  BY <1>15 DEF ExchangeFails, VendorTakes, Stop
<1>16. ASSUME NEW l \in Logins, NEW c \in Clis, HandleCLIAuth(l, c) PROVE StatusIsHonest'
  BY <1>16 DEF HandleCLIAuth, StoreStatus
<1>17. ASSUME NEW l \in Logins, NEW srv \in Logins, NEW err \in BOOLEAN,
              HandleCallback(l, srv, err)
       PROVE StatusIsHonest'
  BY <1>17 DEF HandleCallback
<1>18. ASSUME NEW l \in Logins, Grant(l) PROVE StatusIsHonest'
  BY <1>18 DEF Grant
<1>19. CASE Provision
  BY <1>19 DEF Provision
<1>20. CASE Switch
  BY <1>20 DEF Switch
<1>21. CASE UNCHANGED vars
  BY <1>21 DEF vars
<1> HIDE LoginAssumption DEF TypeOK, Flows, Rows, KnownToItsAppAndLater, StatusIsHonest,
      EntryIsHonest, Active, Apps, PCs, Status, vendor, table, rows,
      apps
<1> QED
  BY <1>1, <1>2, <1>3, <1>4, <1>5, <1>6, <1>7, <1>8, <1>9, <1>10, <1>11, <1>12, <1>13,
     <1>14, <1>15, <1>16, <1>17, <1>18, <1>19, <1>20, <1>21
     DEF Next, Local, AtVendor, User

-----------------------------------------------------------------------------
(* The theorems *)

LoginInv == TypeOK /\ Coded /\ Flows /\ PortsComeBack /\ Owned /\ Rows /\ StatusIsHonest

\* At first no login has begun.
LEMMA LoginInvInit == Init => LoginInv
<1> SUFFICES ASSUME Init PROVE LoginInv
  OBVIOUS
<1>1. TypeOK /\ Coded
  BY TypeInit
<1>2. Flows /\ PortsComeBack /\ Owned
  BY LoginAssumption DEF Init, Flows, PortsComeBack, Owned, OwnCode
<1>3. Rows /\ StatusIsHonest
  BY LoginAssumption DEF Init, Rows, KnownToItsAppAndLater, StatusIsHonest, Apps
<1> QED
  BY <1>1, <1>2, <1>3 DEF LoginInv

\* Every step keeps the invariant.
LEMMA LoginInvNext == LoginInv /\ [Next]_vars => LoginInv'
BY TypeNext, FlowsNext, PortsNext, OwnedNext, RowsNext, StatusNext DEF LoginInv

\* LoginInv holds in every reachable state.
LEMMA LoginInvariant == Spec => []LoginInv
BY LoginInvInit, LoginInvNext, PTL DEF Spec

\* An entry of cliAuthSessions is never false, however many logins overlap.
THEOREM StatusHonest == Spec => []StatusIsHonest
<1>1. LoginInv => StatusIsHonest
  BY DEF LoginInv
<1> QED
  BY <1>1, LoginInvariant, PTL

\* No way out of loginWithBrowser keeps the callback port, for any flow mix.
THEOREM PortsReturned == Spec => []PortsComeBack
<1>1. LoginInv => PortsComeBack
  BY DEF LoginInv
<1> QED
  BY <1>1, LoginInvariant, PTL

\* The state check keeps foreign codes from the token endpoint.
THEOREM CodesOwned == Spec => []OwnCode
<1>1. LoginInv => OwnCode
  BY DEF LoginInv, Owned
<1> QED
  BY <1>1, LoginInvariant, PTL

\* After any number of reloads a manager knows exactly the credentials that
\* its own handler's logins registered and those that were there when it was
\* provisioned.
THEOREM ManagersKnow == Spec => []KnownToItsAppAndLater
<1>1. LoginInv => KnownToItsAppAndLater
  BY DEF LoginInv, Rows
<1> QED
  BY <1>1, LoginInvariant, PTL
=============================================================================
