-------------------------- MODULE ApiSession_proofs --------------------------
(***************************************************************************)
(* What a successful call did, it did with the credentials set last; and   *)
(* no token is asked for with data of two accounts.                        *)
(***************************************************************************)
EXTENDS ApiSession, TLAPS

(* The classes that set the header as they say, or raise.                  *)
Replacing == lang \notin {"cpp", "rust"}

(* Their header holds the credentials set last, and nothing else does.     *)
HeaderInv ==
    /\ Nobody \notin header
    /\ Replacing => /\ header = IF wanted = Nobody THEN {} ELSE {wanted}
                    /\ auth.kind # "basic"

(* A call is made, and carried out, with what the header held.             *)
CallInv ==
    /\ pc = "asking" => request.op \in TokenOps
    /\ pc = "calling" => request.op \in Methods
    /\ Nobody \notin request.with
    /\ reply.is = "token" => reply.token # Nobody
    /\ request.op \in Methods /\ Replacing => request.with \subseteq {wanted}
    /\ request.op \in Methods /\ reply.is = "answer" => done \in request.with
    /\ result.op \in Methods /\ result.is = "ok" =>
          request.op \in Methods /\ reply.is = "answer"

CredentialsInv == lang \in DOMAIN Classes /\ HeaderInv /\ CallInv

(* The bearer data name no organisation but the account's own, except in   *)
(* the class that adds them to earlier data.                               *)
ClaimsInv ==
    /\ lang \in DOMAIN Classes
    /\ lang # "java" => auth.org \in {None, auth.who}
    /\ ClaimsOfOneAccount

(* The decisions the theorems depend on.                                   *)
LEMMA Traits ==
    ASSUME NEW l \in DOMAIN Classes
    PROVE  /\ Classes[l].second = "keep" => l = "cpp"
           /\ Classes[l].merges => l = "java"
           /\ Classes[l].merges \in BOOLEAN
  <1>1. l \in {"python", "ruby", "javascript", "go", "java", "csharp", "cpp", "rust"}
    BY DEF Classes
  <1>2. CASE l = "python"
    BY <1>2 DEF Classes, Python
  <1>3. CASE l = "ruby"
    BY <1>3 DEF Classes, Ruby
  <1>4. CASE l = "javascript"
    BY <1>4 DEF Classes, JavaScript
  <1>5. CASE l = "go"
    BY <1>5 DEF Classes, Go
  <1>6. CASE l = "java"
    BY <1>6 DEF Classes, Java
  <1>7. CASE l = "csharp"
    BY <1>7 DEF Classes, CSharp
  <1>8. CASE l = "cpp"
    BY <1>8 DEF Classes, Cpp
  <1>9. CASE l = "rust"
    BY <1>9 DEF Classes, Rust
  <1> QED BY <1>1, <1>2, <1>3, <1>4, <1>5, <1>6, <1>7, <1>8, <1>9

(* No credentials, basic or bearer, are those of nobody.                   *)
LEMMA Someone ==
    ASSUME NEW a, NEW org, NEW until
    PROVE  Basic(a) # Nobody /\ Token(a, org, until) # Nobody
  BY DEF Basic, Token, Nobody

(* Setting the header of a class that does not raise.                      *)
LEMMA HeaderSet ==
    ASSUME CredentialsInv, NEW c, c # Nobody
    PROVE  /\ Nobody \notin Header(c)
           /\ Replacing => Header(c) = {c}
  BY Traits DEF CredentialsInv, HeaderInv, Replacing, Header, T

(* A new object has no credentials and no call under way.                  *)
LEMMA CredentialsInvInit == Init => CredentialsInv
  BY ApiAssumption
     DEF Init, CredentialsInv, HeaderInv, CallInv, NoAuth, Nothing, Pending, Methods, TokenOps

(* Setting credentials changes header, auth and wanted together; a call    *)
(* copies what the header holds.                                           *)
LEMMA CredentialsInvStep == CredentialsInv /\ [Next]_vars => CredentialsInv'
  <1> SUFFICES ASSUME CredentialsInv, [Next]_vars
               PROVE  CredentialsInv'
    OBVIOUS
  <1> USE DEF CredentialsInv, Methods, TokenOps
  <1>1. CASE \E a \in Accounts : SetBasic(a)
    <2>1. PICK a \in Accounts : SetBasic(a)
      BY <1>1
    <2>2. /\ lang' = lang /\ pc' = "idle"
          /\ request' = Nothing("basic") /\ result'.op = "basic" /\ reply'.is = "pending"
      BY <2>1 DEF SetBasic, Settles, Returns, Pending
    <2>3. CallInv'
      BY <2>2 DEF CallInv, Nothing
    <2>4. CASE UNCHANGED <<auth, header, wanted>>
      BY <2>2, <2>3, <2>4 DEF HeaderInv, Replacing
    <2>5. CASE ~Raises /\ lang = "rust" /\ UNCHANGED header
      BY <2>2, <2>3, <2>5 DEF HeaderInv, Replacing
    <2>6. CASE /\ wanted' = Basic(a) /\ header' = Header(Basic(a))
               /\ auth' = IF T.forgets THEN NoAuth ELSE auth
      BY <2>2, <2>3, <2>6, Someone, HeaderSet DEF HeaderInv, Replacing, NoAuth
    <2> QED BY <2>1, <2>4, <2>5, <2>6 DEF SetBasic
  <1>2. CASE \E a \in Accounts : SetBearer(a)
    <2>1. PICK a \in Accounts : SetBearer(a)
      BY <1>2
    <2>2. CallInv'
      BY <2>1 DEF SetBearer, Settles, Returns, CallInv, Nothing, Pending
    <2> QED BY <2>1, <2>2 DEF SetBearer, HeaderInv, Replacing
  <1>3. CASE \E op \in TokenOps : AskToken(op)
    <2>1. PICK op \in TokenOps : AskToken(op)
      BY <1>3
    <2>2. UNCHANGED <<lang, auth, header, wanted>> /\ pc' = "asking"
      BY <2>1 DEF AskToken
    <2>3. request'.op = op /\ request'.with = {} /\ result'.op = op /\ reply'.is = "pending"
      BY <2>1 DEF AskToken, Returns, Pending
    <2>4. CallInv'
      BY <2>2, <2>3 DEF CallInv
    <2> QED BY <2>2, <2>4 DEF HeaderInv, Replacing
  <1>4. CASE \E op \in TokenOps : AskInVain(op)
    <2>1. PICK op \in TokenOps : AskInVain(op)
      BY <1>4
    <2>2. UNCHANGED <<lang, auth, header, wanted>> /\ pc' \in {"exited", "idle"}
      BY <2>1 DEF AskInVain, Without
    <2>3. request' = Nothing(op) /\ result'.op = op /\ reply'.is = "pending"
      BY <2>1 DEF AskInVain, Without, Settles, Returns, Pending
    <2>4. CallInv'
      BY <2>2, <2>3 DEF CallInv, Nothing
    <2> QED BY <2>2, <2>4 DEF HeaderInv, Replacing
  <1>5. CASE \E m \in Methods : Call(m)
    <2>1. PICK m \in Methods : Call(m)
      BY <1>5
    <2>2. /\ UNCHANGED <<lang, auth, header, wanted>> /\ pc' = "calling"
          /\ reply'.is = "pending" /\ result'.is = "pending"
      BY <2>1 DEF Call, Returns, object, Pending
    <2>3. /\ request'.op = m
          /\ request'.with = header \cup IF auth.kind = "basic" THEN {Basic(auth.who)} ELSE {}
      BY <2>1 DEF Call, Nothing
    <2>4. CallInv'
      BY <2>2, <2>3, Someone DEF CallInv, HeaderInv, Replacing
    <2> QED BY <2>2, <2>4 DEF HeaderInv, Replacing
  <1>6. CASE TakeToken
    <2>1. /\ UNCHANGED <<lang, auth, request, reply, done>> /\ request.op \in TokenOps
          /\ pc' \in {"exited", "idle"} /\ result'.op = request.op
      BY <1>6 DEF TakeToken, Without, Returns, CallInv
    <2>2. CallInv'
      BY <2>1 DEF CallInv, Replacing
    <2>3. CASE UNCHANGED <<header, wanted>>
      BY <2>1, <2>2, <2>3 DEF HeaderInv, Replacing
    <2>4. CASE /\ reply.is = "token"
               /\ header' = Header(reply.token) /\ wanted' = reply.token
      BY <2>1, <2>2, <2>4, HeaderSet DEF CallInv, HeaderInv, Replacing
    <2> QED BY <1>6, <2>3, <2>4 DEF TakeToken, Without
  <1>7. CASE TakeAnswer
    <2>1. UNCHANGED <<lang, auth, header, wanted, request, reply, done>> /\ pc' = "idle"
      BY <1>7 DEF TakeAnswer, object
    <2>2. /\ result'.op = request.op /\ request.op \in Methods
          /\ result'.is = "ok" => reply.is = "answer"
      BY <1>7 DEF TakeAnswer, Returns, CallInv
    <2>3. CallInv'
      BY <2>1, <2>2 DEF CallInv, Replacing
    <2> QED BY <2>1, <2>3 DEF HeaderInv, Replacing
  <1>8. CASE Restart
    <2>1. PICK l \in Languages : Fresh(l)
      BY <1>8 DEF Restart
    <2> QED BY <2>1, ApiAssumption
            DEF Fresh, HeaderInv, CallInv, NoAuth, Nothing, Pending, Replacing
  <1>9. CASE Grant
    <2>1. UNCHANGED <<lang, auth, header, wanted, request, result, pc>> /\ request.op \in TokenOps
      BY <1>9 DEF Grant, object, CallInv
    <2>2. reply'.is = "token" => reply'.token # Nobody
      BY <1>9, Someone DEF Grant, Says, Pending
    <2>3. CallInv'
      BY <1>9, <2>1, <2>2 DEF CallInv, Replacing, Grant
    <2> QED BY <2>1, <2>3 DEF HeaderInv, Replacing
  <1>10. CASE Serve
    <2>1. /\ UNCHANGED <<lang, auth, header, wanted, request, result, pc>>
          /\ request.op \in Methods /\ reply.is = "pending"
      BY <1>10 DEF Serve, object, CallInv
    <2>2. /\ reply'.is = "answer" => done' \in request.with
          /\ reply'.is # "token"
      BY <1>10 DEF Serve, Says, Pending
    <2>3. CallInv'
      BY <2>1, <2>2 DEF CallInv, Replacing
    <2> QED BY <2>1, <2>3 DEF HeaderInv, Replacing
  <1>11. CASE Tick
    BY <1>11 DEF Tick, object, HeaderInv, CallInv, Replacing
  <1>12. CASE UNCHANGED vars
    BY <1>12 DEF vars, HeaderInv, CallInv, Replacing
  <1> QED BY <1>1, <1>2, <1>3, <1>4, <1>5, <1>6, <1>7, <1>8, <1>9, <1>10, <1>11, <1>12
          DEF Next

(* What a call that returned without error did, the server did for the     *)
(* credentials that the program set last: the header is never older, and   *)
(* never another one, in the classes that replace it or raise.             *)
THEOREM CallsActAsLastSet == Spec => []ActsAsLastSet
  <1>1. CredentialsInv => ActsAsLastSet
    BY DEF CredentialsInv, CallInv, ActsAsLastSet, Replacing
  <1> QED BY CredentialsInvInit, CredentialsInvStep, <1>1, PTL DEF Spec

(* basic and bearer replace all the data; only the classes that merge keep *)
(* an organisation.                                                        *)
LEMMA ClaimsInvStep == ClaimsInv /\ [Next]_vars => ClaimsInv'
  <1> SUFFICES ASSUME ClaimsInv, [Next]_vars
               PROVE  ClaimsInv'
    OBVIOUS
  <1> USE DEF ClaimsInv
  <1>1. ASSUME UNCHANGED <<lang, auth>>, pc' # "asking"
        PROVE  ClaimsInv'
    BY <1>1 DEF ClaimsOfOneAccount
  <1>2. ASSUME UNCHANGED <<lang, auth, pc, request>>
        PROVE  ClaimsInv'
    BY <1>2 DEF ClaimsOfOneAccount
  <1>3. CASE \E a \in Accounts : SetBasic(a)
    <2>1. PICK a \in Accounts : SetBasic(a)
      BY <1>3
    <2>2. lang' = lang /\ pc' = "idle"
      BY <2>1 DEF SetBasic
    <2>3. auth' = auth \/ auth'.org = None
      BY <2>1 DEF SetBasic, NoAuth
    <2> QED BY <2>2, <2>3 DEF ClaimsOfOneAccount
  <1>4. CASE \E a \in Accounts : SetBearer(a)
    <2>1. PICK a \in Accounts : SetBearer(a)
      BY <1>4
    <2>2. lang # "java" => auth'.org \in {None, auth'.who}
      BY <2>1, Traits DEF SetBearer, T
    <2> QED BY <2>1, <2>2 DEF SetBearer, ClaimsOfOneAccount
  <1>5. CASE \E op \in TokenOps : AskToken(op)
    <2>1. PICK op \in TokenOps : AskToken(op)
      BY <1>5
    <2>2. request'.org \in {auth.org, None} /\ request'.who = auth.who
      BY <2>1 DEF AskToken
    <2> QED BY <2>1, <2>2 DEF AskToken, ClaimsOfOneAccount
  <1>6. CASE \E op \in TokenOps : AskInVain(op)
    BY <1>6, <1>1 DEF AskInVain, Without
  <1>7. CASE \E m \in Methods : Call(m)
    BY <1>7, <1>1 DEF Call, object
  <1>8. CASE TakeToken
    BY <1>8, <1>1 DEF TakeToken, Without
  <1>9. CASE TakeAnswer
    BY <1>9, <1>1 DEF TakeAnswer, object
  <1>10. CASE Restart
    BY <1>10, ApiAssumption DEF Restart, Fresh, NoAuth, ClaimsOfOneAccount
  <1>11. CASE Grant \/ Serve \/ Tick \/ UNCHANGED vars
    BY <1>11, <1>2 DEF Grant, Serve, Tick, vars, object
  <1> QED BY <1>3, <1>4, <1>5, <1>6, <1>7, <1>8, <1>9, <1>10, <1>11 DEF Next

(* Claims never name one account and the organisation of another, however  *)
(* often the bearer data are changed, but for Java.                        *)
THEOREM ClaimsAreOfOneAccount == Spec => []ClaimsOfOneAccount
  <1>1. Init => ClaimsInv
    BY ApiAssumption DEF Init, ClaimsInv, ClaimsOfOneAccount, NoAuth
  <1>2. ClaimsInv => ClaimsOfOneAccount
    BY DEF ClaimsInv
  <1> QED BY <1>1, <1>2, ClaimsInvStep, PTL DEF Spec

-----------------------------------------------------------------------------
(* Types.                                                                  *)

Auths == [kind : {"none", "basic", "bearer"}, who : Accounts \cup {None},
          org : Accounts \cup {None}]
Requests == [op : Ops, who : Accounts \cup {None}, org : Accounts \cup {None},
             iat : Int, exp : Int, at : 0..MaxTime, with : SUBSET Credentials]
Replies == [is : {"pending", "token", "refused", "answer", "unauthorised", "lost"},
            token : Credentials \cup {Nobody}, body : {"object", "list", "empty"},
            at : 0..MaxTime]
Results == [op : Ops, is : {"pending", "ok", "refused", "unauthorised", "failed"}]

ObjectType ==
    /\ lang \in Languages
    /\ auth \in Auths /\ (auth.kind # "none" => auth.who \in Accounts)
    /\ header \subseteq Credentials /\ \A c, d \in header : c = d
    /\ wanted \in Credentials \cup {Nobody}

ExchangeType ==
    /\ request \in Requests /\ reply \in Replies /\ result \in Results
    /\ pc = "asking" => request.op \in TokenOps /\ request.who \in Accounts
    /\ pc = "calling" => request.op \in Methods
    /\ reply.is = "token" => reply.token \in Credentials
    /\ done \in Credentials \cup {Nobody}

ApiTypeInv ==
    /\ ObjectType /\ ExchangeType
    /\ pc \in {"exited", "idle", "asking", "calling"}
    /\ now \in 0..MaxTime /\ ahead \in Offsets

(* A clock is behind or ahead by a number of minutes.                      *)
LEMMA OffsetsAreIntegers == Offsets \subseteq Int
  <1>1. \A m \in Behind : 0 - m \in Int
    BY ApiAssumption
  <1>2. \A m \in Ahead : m \in Int
    BY ApiAssumption
  <1> SUFFICES ASSUME NEW o \in Offsets PROVE o \in Int
    OBVIOUS
  <1>3. o \in Ahead \/ \E m \in Behind : o = 0 - m
    BY DEF Offsets
  <1> QED BY <1>1, <1>2, <1>3

(* The start of time is a time.                                            *)
LEMMA Times == 0 \in 0..MaxTime /\ 0 \in 0..(MaxTime + Lifetime) /\ 0 \in Int
  BY ApiAssumption

(* Basic credentials have their type.                                      *)
LEMMA BasicType ==
    ASSUME NEW a \in Accounts
    PROVE  Basic(a) \in Credentials
  BY Times DEF Basic, Credentials

(* A request that carries nothing has its type.                            *)
LEMMA NothingType ==
    ASSUME NEW op \in Ops
    PROVE  Nothing(op) \in Requests /\ Nothing(op).op = op
  BY Times DEF Nothing, Requests

(* The reply that is awaited has its type.                                 *)
LEMMA PendingType == Pending \in Replies /\ Pending.is = "pending"
  BY Times DEF Pending, Replies

(* A header that is made from credentials holds these at most.             *)
LEMMA HeaderType ==
    ASSUME ObjectType, NEW c \in Credentials
    PROVE  Header(c) \subseteq Credentials /\ \A d, e \in Header(c) : d = e
  BY DEF ObjectType, Header

(* The replies of a server that gives nothing have their type.             *)
LEMMA SaysType ==
    ASSUME ApiTypeInv, NEW is \in {"refused", "unauthorised", "lost"}, Says(is)
    PROVE  reply' \in Replies /\ reply'.is = is
  BY DEF Says, ApiTypeInv, Replies

(* A method that has returned without asking the server.                   *)
LEMMA SettledType ==
    ASSUME ApiTypeInv, NEW op \in Ops, Settles(op),
           NEW is \in {"pending", "ok", "refused", "unauthorised", "failed"}, Returns(op, is),
           pc' \in {"exited", "idle"}
    PROVE  ExchangeType'
  <1>1. request' \in Requests
    BY NothingType DEF Settles
  <1>2. reply' \in Replies /\ reply'.is = "pending"
    BY PendingType DEF Settles
  <1>3. result' \in Results
    BY DEF Returns, Results
  <1> QED BY <1>1, <1>2, <1>3 DEF Settles, ExchangeType

(* Initially every variable has its type.                                  *)
LEMMA ApiTypeInvInit == Init => ApiTypeInv
  <1> SUFFICES ASSUME Init PROVE ApiTypeInv
    OBVIOUS
  <1>1. ObjectType
    BY DEF Init, ObjectType, NoAuth, Auths
  <1>2. "new" \in Ops
    BY DEF Ops
  <1>3. ExchangeType
    BY <1>2, NothingType, PendingType DEF Init, ExchangeType, Results
  <1> QED BY <1>1, <1>3, Times DEF Init, ApiTypeInv

(* Every step keeps the types, those of the parts included.                *)
LEMMA ApiTypeInvStep == ApiTypeInv /\ [Next]_vars => ApiTypeInv'
  <1> SUFFICES ASSUME ApiTypeInv, [Next]_vars
               PROVE  ApiTypeInv'
    OBVIOUS
  <1> TokenOps \subseteq Ops /\ Methods \subseteq Ops /\ "basic" \in Ops /\ "bearer" \in Ops
      /\ "new" \in Ops
    BY DEF Ops
  <1>1. CASE \E a \in Accounts : SetBasic(a)
    <2>1. PICK a \in Accounts : SetBasic(a)
      BY <1>1
    <2>2. ExchangeType'
      <3>1. pc' \in {"exited", "idle"} /\ Settles("basic")
        BY <2>1 DEF SetBasic
      <3>2. Returns("basic", "failed") \/ Returns("basic", "ok")
        BY <2>1 DEF SetBasic
      <3> QED BY <3>1, <3>2, SettledType
    <2>3. ObjectType'
      <3>1. Basic(a) \in Credentials
        BY BasicType
      <3>2. NoAuth \in Auths /\ NoAuth.kind = "none"
        BY DEF NoAuth, Auths
      <3>3. [kind |-> "basic", who |-> a, org |-> None] \in Auths
        BY DEF Auths
      <3>4. CASE UNCHANGED <<auth, header, wanted>>
        BY <2>1, <3>4 DEF SetBasic, ObjectType, ApiTypeInv
      <3>5. CASE /\ auth' = [kind |-> "basic", who |-> a, org |-> None]
                 /\ wanted' = Basic(a) /\ UNCHANGED header
        BY <2>1, <3>1, <3>3, <3>5 DEF SetBasic, ObjectType, ApiTypeInv
      <3>6. CASE /\ wanted' = Basic(a) /\ header' = Header(Basic(a))
                 /\ auth' = IF T.forgets THEN NoAuth ELSE auth
        BY <2>1, <3>1, <3>2, <3>6, HeaderType DEF SetBasic, ObjectType, ApiTypeInv
      <3> QED BY <2>1, <3>4, <3>5, <3>6 DEF SetBasic
    <2> QED BY <2>1, <2>2, <2>3 DEF SetBasic, ApiTypeInv
  <1>2. CASE \E a \in Accounts : SetBearer(a)
    <2>1. PICK a \in Accounts : SetBearer(a)
      BY <1>2
    <2>2. ExchangeType'
      <3>1. pc' = pc /\ pc = "idle" /\ Settles("bearer") /\ Returns("bearer", "ok")
        BY <2>1 DEF SetBearer
      <3> QED BY <3>1, SettledType
    <2>3. auth' \in Auths /\ auth'.who = a
      BY <2>1 DEF SetBearer, Auths, ObjectType, ApiTypeInv
    <2>4. ObjectType'
      BY <2>1, <2>3 DEF SetBearer, ObjectType, ApiTypeInv
    <2> QED BY <2>1, <2>2, <2>4 DEF SetBearer, ApiTypeInv
  <1>3. CASE \E op \in TokenOps : AskToken(op)
    <2>1. PICK op \in TokenOps : AskToken(op)
      BY <1>3
    <2>2. request' \in Requests /\ request'.op = op /\ request'.who \in Accounts
      <3>1. auth.who \in Accounts /\ auth.org \in Accounts \cup {None}
        BY <2>1 DEF AskToken, ApiTypeInv, ObjectType, Auths
      <3>2. /\ now + ahead - JWT_CLIENT_SERVER_OFFSET \in Int /\ now + ahead + JWT_VALIDITY \in Int
            /\ now \in 0..MaxTime
        BY OffsetsAreIntegers, ApiAssumption
           DEF ApiTypeInv, JWT_CLIENT_SERVER_OFFSET, JWT_VALIDITY
      <3> QED BY <2>1, <3>1, <3>2 DEF AskToken, Requests
    <2>3. result' \in Results
      BY <2>1 DEF AskToken, Returns, Results
    <2>4. ExchangeType'
      BY <2>1, <2>2, <2>3, PendingType DEF AskToken, ExchangeType
    <2> QED BY <2>1, <2>4 DEF AskToken, ApiTypeInv, ObjectType
  <1>4. CASE \E op \in TokenOps : AskInVain(op)
    <2>1. PICK op \in TokenOps : AskInVain(op)
      BY <1>4
    <2>2. ExchangeType'
      <3>1. pc' \in {"exited", "idle"} /\ Settles(op) /\ Returns(op, "failed")
        BY <2>1 DEF AskInVain, Without
      <3> QED BY <3>1, SettledType
    <2> QED BY <2>1, <2>2 DEF AskInVain, Without, ApiTypeInv, ObjectType
  <1>5. CASE \E m \in Methods : Call(m)
    <2>1. PICK m \in Methods : Call(m)
      BY <1>5
    <2>2. header \cup (IF auth.kind = "basic" THEN {Basic(auth.who)} ELSE {}) \subseteq Credentials
      BY BasicType DEF ApiTypeInv, ObjectType
    <2>3. request' \in Requests /\ request'.op = m
      BY <2>1, <2>2, Times DEF Call, Nothing, Requests
    <2>4. result' \in Results
      BY <2>1 DEF Call, Returns, Results
    <2>5. ExchangeType'
      BY <2>1, <2>3, <2>4, PendingType DEF Call, ExchangeType
    <2> QED BY <2>1, <2>5 DEF Call, object, ApiTypeInv, ObjectType
  <1>6. CASE TakeToken
    <2>1. /\ UNCHANGED <<lang, auth, request, reply, now, ahead, done>>
          /\ pc' \in {"exited", "idle"}
      BY <1>6 DEF TakeToken, Without
    <2>2. result' \in Results
      <3>1. request.op \in Ops
        BY DEF ApiTypeInv, ExchangeType, Requests
      <3> QED BY <1>6, <3>1 DEF TakeToken, Without, Returns, Results
    <2>3. ExchangeType'
      BY <2>1, <2>2 DEF ApiTypeInv, ExchangeType
    <2>4. ObjectType'
      <3>1. CASE UNCHANGED <<header, wanted>>
        BY <2>1, <3>1 DEF ApiTypeInv, ObjectType
      <3>2. CASE reply.is = "token" /\ header' = Header(reply.token) /\ wanted' = reply.token
        BY <2>1, <3>2, HeaderType DEF ApiTypeInv, ObjectType, ExchangeType
      <3> QED BY <1>6, <3>1, <3>2 DEF TakeToken, Without
    <2> QED BY <2>1, <2>3, <2>4 DEF ApiTypeInv
  <1>7. CASE TakeAnswer
    <2>1. UNCHANGED <<lang, auth, header, wanted, request, reply, done, now, ahead>> /\ pc' = "idle"
      BY <1>7 DEF TakeAnswer, object
    <2>2. result' \in Results
      <3>1. request.op \in Ops
        BY DEF ApiTypeInv, ExchangeType, Requests
      <3> QED BY <1>7, <3>1 DEF TakeAnswer, Returns, Results
    <2> QED BY <2>1, <2>2 DEF ApiTypeInv, ObjectType, ExchangeType
  <1>8. CASE Restart
    <2>1. PICK l \in Languages : Fresh(l)
      BY <1>8 DEF Restart
    <2>2. ObjectType'
      BY <2>1 DEF Fresh, ObjectType, NoAuth, Auths
    <2>3. ExchangeType'
      BY <2>1, NothingType, PendingType DEF Fresh, ExchangeType, Results
    <2> QED BY <1>8, <2>1, <2>2, <2>3 DEF Restart, Fresh, ApiTypeInv
  <1>9. CASE Grant
    <2>1. UNCHANGED <<lang, auth, header, wanted, request, result, pc, now, ahead, done>>
      BY <1>9 DEF Grant, object
    <2>2. reply' \in Replies /\ (reply'.is = "token" => reply'.token \in Credentials)
      <3>1. CASE Says("refused") \/ Says("lost")
        BY <3>1, SaysType
      <3>2. CASE reply' = [is |-> "token", body |-> "empty", at |-> now,
                           token |-> Token(request.who, request.org, now + Lifetime)]
        <4>1. now + Lifetime \in 0..(MaxTime + Lifetime)
          BY ApiAssumption DEF ApiTypeInv
        <4>2. request.who \in Accounts /\ request.org \in Accounts \cup {None}
          BY <1>9 DEF Grant, ApiTypeInv, ExchangeType, Requests
        <4>3. Token(request.who, request.org, now + Lifetime) \in Credentials
          BY <4>1, <4>2 DEF Token, Credentials
        <4> QED BY <3>2, <4>3 DEF Replies, ApiTypeInv
      <3> QED BY <1>9, <3>1, <3>2 DEF Grant
    <2> QED BY <2>1, <2>2 DEF ApiTypeInv, ObjectType, ExchangeType
  <1>10. CASE Serve
    <2>1. UNCHANGED <<lang, auth, header, wanted, request, result, pc, now, ahead>>
      BY <1>10 DEF Serve, object
    <2>2. reply' \in Replies /\ reply'.is # "token"
      <3>1. CASE Says("lost") \/ Says("unauthorised")
        BY <3>1, SaysType
      <3>2. CASE \E b \in Bodies[request.op] :
                   reply' = [is |-> "answer", token |-> Nobody, body |-> b, at |-> now]
        <4>1. \A b \in Bodies[request.op] : b \in {"object", "list", "empty"}
          BY <1>10 DEF Serve, ApiTypeInv, ExchangeType, Methods, Bodies
        <4> QED BY <3>2, <4>1 DEF Replies, ApiTypeInv
      <3> QED BY <1>10, <3>1, <3>2 DEF Serve
    <2>3. done' \in Credentials \cup {Nobody}
      BY <1>10 DEF Serve, ApiTypeInv, ExchangeType, Requests
    <2> QED BY <2>1, <2>2, <2>3 DEF ApiTypeInv, ObjectType, ExchangeType
  <1>11. CASE Tick
    <2>1. now' \in 0..MaxTime
      BY <1>11, ApiAssumption DEF Tick, ApiTypeInv
    <2> QED BY <1>11, <2>1 DEF Tick, object, ApiTypeInv, ObjectType, ExchangeType
  <1>12. CASE UNCHANGED vars
    BY <1>12 DEF vars, ApiTypeInv, ObjectType, ExchangeType
  <1> QED BY <1>1, <1>2, <1>3, <1>4, <1>5, <1>6, <1>7, <1>8, <1>9, <1>10, <1>11, <1>12
          DEF Next

(* The class is type correct; above all, the header never holds two        *)
(* credentials, whatever is set in whatever order.                         *)
THEOREM ApiTyping == Spec => []TypeOK
  <1>1. ApiTypeInv => TypeOK
    BY DEF ApiTypeInv, ObjectType, ExchangeType, TypeOK, Auths, Requests, Replies, Results
  <1> QED BY ApiTypeInvInit, ApiTypeInvStep, <1>1, PTL DEF Spec

-----------------------------------------------------------------------------
(* What the program may conclude from what a method returns.               *)

(* The classes look at their credentials, and at the answers, as follows.  *)
LEMMA MoreTraits ==
    ASSUME NEW l \in DOMAIN Classes
    PROVE  /\ l # "javascript" => Classes[l].identifies
           /\ l \notin {"go", "java"} => Classes[l].unread \subseteq EmptyAnswer
  <1>1. l \in {"python", "ruby", "javascript", "go", "java", "csharp", "cpp", "rust"}
    BY DEF Classes
  <1>2. CASE l = "python"
    BY <1>2 DEF Classes, Python
  <1>3. CASE l = "ruby"
    BY <1>3 DEF Classes, Ruby
  <1>4. CASE l = "javascript"
    BY <1>4 DEF Classes, JavaScript
  <1>5. CASE l \in {"go", "java"}
    BY <1>5 DEF Classes, Go, Java
  <1>6. CASE l = "csharp"
    BY <1>6 DEF Classes, CSharp
  <1>7. CASE l = "cpp"
    BY <1>7 DEF Classes, Cpp
  <1>8. CASE l = "rust"
    BY <1>8 DEF Classes, Rust
  <1> QED BY <1>1, <1>2, <1>3, <1>4, <1>5, <1>6, <1>7, <1>8

(* The credentials set last are no use any more.                           *)
Expired == wanted = Nobody \/ (wanted.kind = "bearer" /\ wanted.until <= reply.at)

(* The claims were out of their validity when they arrived.                *)
OutOfTime ==
    \/ ahead > JWT_CLIENT_SERVER_OFFSET
    \/ reply.at - request.at - ahead > JWT_VALIDITY

(* A call carries the header as it is, claims are made of the program's    *)
(* clock, and an answer has a body that the method may have.               *)
SentInv ==
    /\ pc = "calling" /\ Replacing => request.with = IF wanted = Nobody THEN {} ELSE {wanted}
    /\ pc = "asking" =>
          /\ request.at <= now
          /\ request.iat = request.at + ahead - JWT_CLIENT_SERVER_OFFSET
          /\ request.exp = request.at + ahead + JWT_VALIDITY
    /\ pc \in {"asking", "calling"} => result.is = "pending"

ReplyInv ==
    /\ pc = "calling" /\ reply.is = "answer" => reply.body \in Bodies[request.op]
    /\ pc = "calling" /\ reply.is = "unauthorised" /\ Replacing => Expired
    /\ pc = "asking" /\ reply.is = "refused" /\ lang # "javascript" => OutOfTime
    /\ pc = "asking" => reply.is # "unauthorised"
    /\ pc = "calling" => reply.is # "refused"

ReportInv == FreshTokenWorks /\ TokenGranted /\ AnswersRead

Base == ApiTypeInv /\ CredentialsInv
OutcomeInv == SentInv /\ ReplyInv /\ ReportInv

(* Initially nothing was sent, answered or returned.                       *)
LEMMA OutcomeInvInit == Init => OutcomeInv
  BY DEF Init, OutcomeInv, SentInv, ReplyInv, ReportInv, FreshTokenWorks, TokenGranted, AnswersRead

(* While no method is under way, only what it returns is promised.         *)
LEMMA IdleOutcome ==
    ASSUME pc' \notin {"asking", "calling"}, ReportInv'
    PROVE  OutcomeInv'
  BY DEF OutcomeInv, SentInv, ReplyInv

(* A method that neither refuses nor calls reports nothing.                *)
LEMMA NoReport ==
    ASSUME result'.is \notin {"unauthorised", "refused"},
           result'.is = "failed" => result'.op \notin Methods
    PROVE  ReportInv'
  BY DEF ReportInv, FreshTokenWorks, TokenGranted, AnswersRead

(* Every step keeps what is known of the request, its reply and what a     *)
(* method returned.                                                        *)
LEMMA OutcomeInvStep == Base /\ Base' /\ OutcomeInv /\ [Next]_vars => OutcomeInv'
  <1> SUFFICES ASSUME Base, Base', OutcomeInv, [Next]_vars
               PROVE  OutcomeInv'
    OBVIOUS
  <1> TokenOps \cap Methods = {} /\ "basic" \notin Methods /\ "bearer" \notin Methods
      /\ "new" \notin Methods
    BY DEF TokenOps, Methods
  <1>1. CASE \E a \in Accounts : SetBasic(a) \/ SetBearer(a)
    <2>1. pc' = "idle" /\ result'.op \in {"basic", "bearer"} /\ result'.is \in {"ok", "failed"}
      BY <1>1 DEF SetBasic, SetBearer, Returns
    <2> QED BY <2>1, NoReport, IdleOutcome
  <1>2. CASE \E op \in TokenOps : AskToken(op)
    <2>1. PICK op \in TokenOps : AskToken(op)
      BY <1>2
    <2>2. result'.is = "pending" /\ reply'.is = "pending" /\ pc' = "asking"
      BY <2>1 DEF AskToken, Returns, Pending
    <2>3. SentInv'
      <3>1. now \in Int /\ ahead \in Int /\ now' = now /\ ahead' = ahead
        BY <2>1, OffsetsAreIntegers, ApiAssumption DEF AskToken, Base, ApiTypeInv
      <3>2. /\ request'.at = now /\ request'.iat = now + ahead - JWT_CLIENT_SERVER_OFFSET
            /\ request'.exp = now + ahead + JWT_VALIDITY
        BY <2>1 DEF AskToken
      <3> QED BY <2>2, <3>1, <3>2 DEF SentInv
    <2> QED BY <2>2, <2>3, NoReport DEF OutcomeInv, ReplyInv
  <1>3. CASE \E op \in TokenOps : AskInVain(op)
    <2>1. pc' \in {"exited", "idle"} /\ result'.op \in TokenOps /\ result'.is = "failed"
      BY <1>3 DEF AskInVain, Without, Returns
    <2> QED BY <2>1, NoReport, IdleOutcome
  <1>4. CASE \E m \in Methods : Call(m)
    <2>1. PICK m \in Methods : Call(m)
      BY <1>4
    <2>2. result'.is = "pending" /\ reply'.is = "pending" /\ pc' = "calling"
      BY <2>1 DEF Call, Returns, Pending
    <2>3. /\ UNCHANGED <<lang, wanted>>
          /\ request'.with = header \cup IF auth.kind = "basic" THEN {Basic(auth.who)} ELSE {}
      BY <2>1 DEF Call, Nothing, object
    <2>4. SentInv'
      BY <2>2, <2>3 DEF SentInv, Base, CredentialsInv, HeaderInv, Replacing
    <2> QED BY <2>2, <2>4, NoReport DEF OutcomeInv, ReplyInv
  <1>5. CASE TakeToken
    <2>1. /\ pc = "asking" /\ pc' \in {"exited", "idle"} /\ request.op \in TokenOps
          /\ result'.op = request.op
          /\ UNCHANGED <<lang, request, reply, ahead>>
      BY <1>5 DEF TakeToken, Without, Returns, Base, CredentialsInv, CallInv
    <2>2. CASE result'.is \in {"ok", "failed"}
      BY <2>1, <2>2, NoReport, IdleOutcome
    <2>3. CASE reply.is = "refused" /\ result'.is = "refused"
      <3>1. lang # "javascript" => OutOfTime
        BY <2>1, <2>3 DEF OutcomeInv, ReplyInv
      <3>2. ReportInv'
        BY <2>1, <2>3, <3>1
           DEF ReportInv, FreshTokenWorks, TokenGranted, AnswersRead, OutOfTime
      <3> QED BY <2>1, <3>2, IdleOutcome
    <2> QED BY <1>5, <2>2, <2>3 DEF TakeToken, Without, Returns
  <1>6. CASE TakeAnswer
    <2>1. /\ pc = "calling" /\ pc' = "idle" /\ request.op \in Methods /\ result'.op = request.op
          /\ UNCHANGED <<lang, wanted, request, reply, ahead>>
      BY <1>6 DEF TakeAnswer, Returns, object, Base, CredentialsInv, CallInv
    <2>2. CASE result'.is = "ok"
      BY <2>1, <2>2, NoReport, IdleOutcome
    <2>3. CASE reply.is = "lost" /\ result'.is = "failed"
      <3>1. ReportInv'
        BY <2>1, <2>3 DEF ReportInv, FreshTokenWorks, TokenGranted, AnswersRead
      <3> QED BY <2>1, <3>1, IdleOutcome
    <2>4. CASE reply.is = "unauthorised" /\ result'.is = "unauthorised"
      <3>1. Replacing => Expired
        BY <2>1, <2>4 DEF OutcomeInv, ReplyInv
      <3>2. ReportInv'
        BY <2>1, <2>4, <3>1
           DEF ReportInv, FreshTokenWorks, TokenGranted, AnswersRead, Expired, Replacing
      <3> QED BY <2>1, <3>2, IdleOutcome
    <2>5. CASE /\ reply.is = "answer" /\ <<request.op, reply.body>> \in T.unread
               /\ result'.is = "failed"
      <3>1. reply.body \in Bodies[request.op]
        BY <2>1, <2>5 DEF OutcomeInv, ReplyInv
      <3>2. <<request.op, reply.body>> \notin EmptyAnswer
        BY <2>1, <3>1 DEF Bodies, EmptyAnswer, Methods
      <3>3. lang \in {"go", "java"}
        BY <2>5, <3>2, MoreTraits DEF T, Base, CredentialsInv
      <3>4. ReportInv'
        BY <2>1, <2>5, <3>3 DEF ReportInv, FreshTokenWorks, TokenGranted, AnswersRead
      <3> QED BY <2>1, <3>4, IdleOutcome
    <2> QED BY <1>6, <2>2, <2>3, <2>4, <2>5 DEF TakeAnswer, Returns
  <1>7. CASE Restart
    <2>1. pc' = "idle" /\ result' = [op |-> "new", is |-> "ok"]
      BY <1>7 DEF Restart, Fresh
    <2> QED BY <2>1, NoReport, IdleOutcome
  <1>8. CASE Grant
    <2>1. /\ UNCHANGED <<lang, wanted, request, result, pc, now, ahead>>
          /\ pc = "asking" /\ result.is = "pending"
      BY <1>8 DEF Grant, object, OutcomeInv, SentInv
    <2>2. SentInv' /\ ReportInv'
      BY <2>1, NoReport DEF OutcomeInv, SentInv, Replacing
    <2>3. reply'.is = "refused" /\ lang # "javascript" => OutOfTime'
      <3>1. SUFFICES ASSUME reply'.is = "refused", lang # "javascript"
                     PROVE  OutOfTime'
        OBVIOUS
      <3>2. T.identifies
        BY <3>1, MoreTraits DEF T, Base, CredentialsInv
      <3>3. ~(request.iat <= now /\ now <= request.exp) /\ reply'.at = now
        BY <1>8, <3>1, <3>2 DEF Grant, Says
      <3>4. now \in Int /\ ahead \in Int /\ request.at \in Int /\ request.at <= now
        BY <2>1, OffsetsAreIntegers, ApiAssumption
           DEF Base, ApiTypeInv, ExchangeType, Requests, OutcomeInv, SentInv
      <3>5. /\ request.iat = request.at + ahead - 1
            /\ request.exp = request.at + ahead + 10
        BY <2>1 DEF OutcomeInv, SentInv, JWT_CLIENT_SERVER_OFFSET, JWT_VALIDITY
      <3>6. ahead > 1 \/ now - request.at - ahead > 10
        BY <3>3, <3>4, <3>5
      <3> QED BY <2>1, <3>3, <3>6 DEF OutOfTime, JWT_CLIENT_SERVER_OFFSET, JWT_VALIDITY
    <2>4. reply'.is # "unauthorised"
      BY <1>8 DEF Grant, Says
    <2>5. ReplyInv'
      BY <2>1, <2>3, <2>4 DEF ReplyInv
    <2> QED BY <2>2, <2>5 DEF OutcomeInv
  <1>9. CASE Serve
    <2>1. /\ UNCHANGED <<lang, wanted, request, result, pc, now, ahead>>
          /\ pc = "calling" /\ result.is = "pending"
      BY <1>9 DEF Serve, object, OutcomeInv, SentInv
    <2>2. SentInv' /\ ReportInv'
      BY <2>1, NoReport DEF OutcomeInv, SentInv, Replacing
    <2>3. reply'.is = "answer" => reply'.body \in Bodies[request.op]
      BY <1>9 DEF Serve, Says
    <2>4. reply'.is = "unauthorised" /\ Replacing => Expired'
      <3>1. SUFFICES ASSUME reply'.is = "unauthorised", Replacing, wanted # Nobody
                     PROVE  Expired'
        BY <2>1 DEF Expired
      <3>2. request.with = {wanted}
        BY <2>1, <3>1 DEF OutcomeInv, SentInv
      <3>3. reply'.at = now /\ ~Valid(wanted)
        BY <1>9, <3>1, <3>2 DEF Serve, Says
      <3>4. wanted.kind \in {"basic", "bearer"} /\ wanted.until \in Int /\ now \in Int
        BY <3>1, ApiAssumption DEF Base, ApiTypeInv, ObjectType, Credentials
      <3>5. wanted.kind = "bearer" /\ wanted.until <= now
        BY <3>3, <3>4 DEF Valid
      <3> QED BY <2>1, <3>3, <3>5 DEF Expired
    <2>5. reply'.is # "refused"
      BY <1>9 DEF Serve, Says
    <2>6. ReplyInv'
      BY <2>1, <2>3, <2>4, <2>5 DEF ReplyInv, Replacing
    <2> QED BY <2>2, <2>6 DEF OutcomeInv
  <1>10. CASE Tick
    <2>1. /\ UNCHANGED <<lang, wanted, request, reply, result, pc, ahead>> /\ now' = now + 1
      BY <1>10 DEF Tick, object
    <2>2. pc = "asking" => request.at <= now'
      BY <2>1, ApiAssumption DEF Base, ApiTypeInv, ExchangeType, Requests, OutcomeInv, SentInv
    <2>3. SentInv'
      BY <2>1, <2>2 DEF OutcomeInv, SentInv, Replacing
    <2>4. ReplyInv' /\ ReportInv'
      BY <2>1 DEF OutcomeInv, ReplyInv, ReportInv, FreshTokenWorks, TokenGranted, AnswersRead,
         Expired, OutOfTime, Replacing
    <2> QED BY <2>3, <2>4 DEF OutcomeInv
  <1>11. CASE UNCHANGED vars
    BY <1>11 DEF vars, OutcomeInv, SentInv, ReplyInv, ReportInv, FreshTokenWorks, TokenGranted,
       AnswersRead, Expired, OutOfTime, Replacing
  <1> QED BY <1>1, <1>2, <1>3, <1>4, <1>5, <1>6, <1>7, <1>8, <1>9, <1>10, <1>11 DEF Next

(* What the three properties rest on always holds.                         *)
LEMMA Outcomes == Spec => [](OutcomeInv)
  <1>1. Init => Base /\ OutcomeInv
    BY ApiTypeInvInit, CredentialsInvInit, OutcomeInvInit DEF Base
  <1>2. Base /\ OutcomeInv /\ [Next]_vars => Base' /\ OutcomeInv'
    BY ApiTypeInvStep, CredentialsInvStep, OutcomeInvStep DEF Base
  <1> QED BY <1>1, <1>2, PTL DEF Spec

(* Whatever the clocks and lifetimes, a call is refused only for want of   *)
(* credentials or because the token has expired, in the classes that set   *)
(* the header as they say: to ask for another token helps.                 *)
THEOREM RefusedOnlyWhenExpired == Spec => []FreshTokenWorks
  <1>1. OutcomeInv => FreshTokenWorks
    BY DEF OutcomeInv, ReportInv
  <1> QED BY <1>1, Outcomes, PTL

(* The margins of the claims suffice for every clock that is within them.  *)
THEOREM MarginsSuffice == Spec => []TokenGranted
  <1>1. OutcomeInv => TokenGranted
    BY DEF OutcomeInv, ReportInv
  <1> QED BY <1>1, Outcomes, PTL

(* A call that was carried out and answered is never reported as failed,   *)
(* but in Go and Java.                                                     *)
THEOREM AnswersAreRead == Spec => []AnswersRead
  <1>1. OutcomeInv => AnswersRead
    BY DEF OutcomeInv, ReportInv
  <1> QED BY <1>1, Outcomes, PTL
=============================================================================
