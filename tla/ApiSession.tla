----------------------------- MODULE ApiSession -----------------------------
(***************************************************************************)
(* The Rest class of the eight languages (utils, rest): the credentials an *)
(* object is given, the bearer token it asks for with them, and the calls  *)
(* it makes.  Time is counted in minutes.                                  *)
(***************************************************************************)
EXTENDS Integers

CONSTANTS
    Languages,  \* the classes looked at
    Accounts,   \* users of the API
    WithOrg,    \* those whose data name an organisation: their own
    Ahead,      \* how far the clock of the program may be ahead of the server's, ...
    Behind,     \* ... or behind
    Lifetime,   \* of a token, as the server decides
    MaxTime,    \* bound: the last minute of the server's clock
    None

(* What a class does when it has an Authorization header already; whether  *)
(* basic authentication takes the bearer data away; whether bearer data    *)
(* are added to the earlier ones; what becomes of the organisation;        *)
(* whether the request of a token says which program asks; what happens to *)
(* a program that gets none; which answers a call fails to read.           *)
Methods == {"create", "read", "update", "delete"}
EmptyAnswer == {"create", "read"} \X {"empty"}

PythonMerges ==       \* mutant: update() of the dictionary
    [second |-> "replace", forgets |-> TRUE, merges |-> TRUE, org |-> "sent",
     identifies |-> TRUE, exits |-> FALSE, unread |-> EmptyAnswer]
RubyKeeps ==          \* mutant: ||= for the header
    [second |-> "keep", forgets |-> TRUE, merges |-> FALSE, org |-> "sent",
     identifies |-> TRUE, exits |-> FALSE, unread |-> EmptyAnswer]
JavaScriptParses ==   \* mutant: every answer is parsed
    [second |-> "replace", forgets |-> TRUE, merges |-> FALSE, org |-> "sent",
     identifies |-> FALSE, exits |-> FALSE, unread |-> Methods \X {"empty"}]

Python == [second |-> "replace", forgets |-> TRUE, merges |-> FALSE, org |-> "sent",
           identifies |-> TRUE, exits |-> FALSE, unread |-> EmptyAnswer]
Ruby == [second |-> "replace", forgets |-> TRUE, merges |-> FALSE, org |-> "sent",
         identifies |-> TRUE, exits |-> FALSE, unread |-> EmptyAnswer]
JavaScript == [second |-> "replace", forgets |-> TRUE, merges |-> FALSE, org |-> "sent",
               identifies |-> FALSE, exits |-> FALSE, unread |-> EmptyAnswer]
Go == [second |-> "replace", forgets |-> FALSE, merges |-> FALSE, org |-> "unsent",
       identifies |-> TRUE, exits |-> TRUE, unread |-> Methods \X {"list"}]
Java == [second |-> "replace", forgets |-> FALSE, merges |-> TRUE, org |-> "sent",
         identifies |-> TRUE, exits |-> FALSE, unread |-> Methods \X {"empty"}]
CSharp == [second |-> "raise", forgets |-> FALSE, merges |-> FALSE, org |-> "some",
           identifies |-> TRUE, exits |-> FALSE, unread |-> {}]
Cpp == [second |-> "keep", forgets |-> FALSE, merges |-> FALSE, org |-> "sent",
        identifies |-> TRUE, exits |-> FALSE, unread |-> EmptyAnswer]
Rust == [second |-> "replace", forgets |-> TRUE, merges |-> FALSE, org |-> "sent",
         identifies |-> TRUE, exits |-> FALSE, unread |-> EmptyAnswer]

Classes == [python |-> Python, ruby |-> Ruby, javascript |-> JavaScript, go |-> Go,
            java |-> Java, csharp |-> CSharp, cpp |-> Cpp, rust |-> Rust]

ASSUME ApiAssumption ==
    /\ Languages \subseteq DOMAIN Classes
    /\ WithOrg \subseteq Accounts /\ None \notin Accounts
    /\ Ahead \subseteq Nat /\ Behind \subseteq Nat
    /\ Lifetime \in Nat \ {0} /\ MaxTime \in Nat

Offsets == Ahead \cup {0 - m : m \in Behind}

JWT_CLIENT_SERVER_OFFSET == 1
JWT_VALIDITY == 10

VARIABLES
    lang,    \* the class
    pc,      \* where the program is in a method of it
    auth,    \* the authentication data
    header,  \* credentials in the Authorization header
    request, \* the request under way, or the last one
    reply,   \* what came of it
    result,  \* what the last method returned
    now,     \* clock of the server
    ahead,   \* the program's clock less the server's
    wanted,  \* history: the credentials set last, as far as the program knows
    done     \* history: those with which the server carried out the last call

object == <<lang, auth, header>>
vars == <<lang, pc, auth, header, request, reply, result, now, ahead, wanted, done>>

T == Classes[lang]

Basic(a) == [kind |-> "basic", who |-> a, org |-> None, until |-> 0]
Token(a, org, until) == [kind |-> "bearer", who |-> a, org |-> org, until |-> until]
Nobody == [kind |-> "none", who |-> None, org |-> None, until |-> 0]

NoAuth == [kind |-> "none", who |-> None, org |-> None]

Nothing(op) == [op |-> op, who |-> None, org |-> None, iat |-> 0, exp |-> 0, at |-> 0,
                with |-> {}]
Pending == [is |-> "pending", token |-> Nobody, body |-> "empty", at |-> 0]

Credentials == [kind : {"basic", "bearer"}, who : Accounts, org : Accounts \cup {None},
                until : 0..(MaxTime + Lifetime)]
TokenOps == {"scope", "token"}
Ops == {"new", "basic", "bearer"} \cup TokenOps \cup Methods

TypeOK ==
    /\ lang \in Languages /\ pc \in {"exited", "idle", "asking", "calling"}
    /\ auth \in [kind : {"none", "basic", "bearer"}, who : Accounts \cup {None},
                 org : Accounts \cup {None}]
    /\ header \subseteq Credentials /\ \A c, d \in header : c = d
    /\ request \in [op : Ops, who : Accounts \cup {None}, org : Accounts \cup {None},
                    iat : Int, exp : Int, at : 0..MaxTime, with : SUBSET Credentials]
    /\ reply \in [is : {"pending", "token", "refused", "answer", "unauthorised", "lost"},
                  token : Credentials \cup {Nobody}, body : {"object", "list", "empty"},
                  at : 0..MaxTime]
    /\ result \in [op : Ops, is : {"pending", "ok", "refused", "unauthorised", "failed"}]
    /\ now \in 0..MaxTime /\ ahead \in Offsets
    /\ wanted \in Credentials \cup {Nobody} /\ done \in Credentials \cup {Nobody}

(* A new object.                                                           *)
Fresh(l) ==
    /\ pc' = "idle" /\ lang' = l
    /\ auth' = NoAuth /\ header' = {} /\ wanted' = Nobody
    /\ request' = Nothing("new") /\ reply' = Pending /\ done' = Nobody
    /\ result' = [op |-> "new", is |-> "ok"]

Init ==
    /\ pc = "idle" /\ lang \in Languages
    /\ auth = NoAuth /\ header = {} /\ wanted = Nobody
    /\ request = Nothing("new") /\ reply = Pending /\ done = Nobody
    /\ result = [op |-> "new", is |-> "ok"]
    /\ now = 0 /\ ahead \in Offsets

-----------------------------------------------------------------------------
(* The object.                                                             *)

HeaderAdded(c) == header \cup {c}   \* mutant: a header is added

(* The Authorization header once it is set, and whether it can be.         *)
Header(c) == IF T.second = "keep" /\ header # {} THEN header ELSE {c}
Raises == T.second = "raise" /\ header # {}

Returns(op, is) == result' = [op |-> op, is |-> is]
Settles(op) == request' = Nothing(op) /\ reply' = Pending /\ done' = Nobody

(* Rust keeps the password and makes a header of it in each call.          *)
SetBasic(a) ==
    /\ pc = "idle"
    /\ \/ /\ Raises
          /\ Returns("basic", "failed") /\ UNCHANGED <<auth, header, wanted>>
       \/ /\ ~Raises
          /\ Returns("basic", "ok") /\ wanted' = Basic(a)
          /\ IF lang = "rust"
             THEN auth' = [kind |-> "basic", who |-> a, org |-> None] /\ UNCHANGED header
             ELSE /\ header' = Header(Basic(a))
                  /\ auth' = IF T.forgets THEN NoAuth ELSE auth
    /\ Settles("basic")
    /\ UNCHANGED <<lang, pc, now, ahead>>

(* The data are complete: some classes look at once that they are, in the  *)
(* others a token cannot be asked for.                                     *)
SetBearer(a) ==
    /\ pc = "idle"
    /\ auth' = [kind |-> "bearer", who |-> a,
                org |-> IF a \in WithOrg THEN a ELSE IF T.merges THEN auth.org ELSE None]
    /\ Settles("bearer") /\ Returns("bearer", "ok")
    /\ UNCHANGED <<lang, pc, header, now, ahead, wanted>>

AskTokenLate(op) ==   \* mutant: the offset is added
    /\ pc = "idle" /\ auth.kind = "bearer"
    /\ pc' = "asking" /\ done' = Nobody
    /\ request' = [op |-> op, who |-> auth.who, org |-> auth.org,
                   iat |-> now + ahead + JWT_CLIENT_SERVER_OFFSET,
                   exp |-> now + ahead + JWT_VALIDITY, at |-> now, with |-> {}]
    /\ reply' = Pending /\ Returns(op, "pending")
    /\ UNCHANGED <<lang, auth, header, now, ahead, wanted>>

(* set_default_scope ("scope") and get_bearer_token ("token") sign claims  *)
(* that hold from a minute ago on for ten minutes, and send them.          *)
AskToken(op) ==
    /\ pc = "idle" /\ auth.kind = "bearer"
    /\ pc' = "asking" /\ done' = Nobody
    /\ \E org \in {auth.org, None} :
          /\ T.org = "sent" => org = auth.org
          /\ T.org = "unsent" => org = None
          /\ request' = [op |-> op, who |-> auth.who, org |-> org,
                         iat |-> now + ahead - JWT_CLIENT_SERVER_OFFSET,
                         exp |-> now + ahead + JWT_VALIDITY, at |-> now, with |-> {}]
    /\ reply' = Pending /\ Returns(op, "pending")
    /\ UNCHANGED <<lang, auth, header, now, ahead, wanted>>

(* No token is had: an exception, or in Go the end of the program.         *)
Without(op, is) ==
    /\ Returns(op, is)
    /\ pc' = IF T.exits THEN "exited" ELSE "idle"
    /\ UNCHANGED <<header, wanted>>

AskInVain(op) ==
    /\ pc = "idle" /\ auth.kind # "bearer"
    /\ Without(op, "failed") /\ Settles(op)
    /\ UNCHANGED <<lang, auth, now, ahead>>

TakeTokenUnused ==   \* mutant: the token is not put into the header
    /\ pc = "asking" /\ reply.is # "pending"
    /\ IF reply.is = "token"
       THEN /\ pc' = "idle" /\ Returns(request.op, "ok") /\ UNCHANGED header
            /\ wanted' = IF request.op = "scope" THEN reply.token ELSE wanted
       ELSE Without(request.op, "failed")
    /\ UNCHANGED <<lang, auth, request, reply, now, ahead, done>>

(* What get_bearer_token returns is put into the header, or handed to the  *)
(* caller.                                                                 *)
TakeToken ==
    /\ pc = "asking" /\ reply.is # "pending"
    /\ \/ /\ reply.is = "token" /\ request.op = "token"
          /\ pc' = "idle" /\ Returns("token", "ok") /\ UNCHANGED <<header, wanted>>
       \/ /\ reply.is = "token" /\ request.op = "scope" /\ Raises
          /\ pc' = "idle" /\ Returns("scope", "failed") /\ UNCHANGED <<header, wanted>>
       \/ /\ reply.is = "token" /\ request.op = "scope" /\ ~Raises
          /\ pc' = "idle" /\ Returns("scope", "ok")
          /\ header' = Header(reply.token) /\ wanted' = reply.token
       \/ reply.is = "refused" /\ Without(request.op, "refused")
       \/ reply.is = "lost" /\ Without(request.op, "failed")
    /\ UNCHANGED <<lang, auth, request, reply, now, ahead, done>>

(* call: create, read, update and delete are calls with a method.          *)
Call(m) ==
    /\ pc = "idle"
    /\ pc' = "calling" /\ done' = Nobody /\ reply' = Pending /\ Returns(m, "pending")
    /\ request' = [Nothing(m) EXCEPT
                      !.with = header \cup IF auth.kind = "basic" THEN {Basic(auth.who)} ELSE {}]
    /\ UNCHANGED <<object, now, ahead, wanted>>

TakeAnswer ==
    /\ pc = "calling" /\ reply.is # "pending"
    /\ pc' = "idle"
    /\ \/ reply.is = "answer" /\ <<request.op, reply.body>> \notin T.unread
          /\ Returns(request.op, "ok")
       \/ reply.is = "answer" /\ <<request.op, reply.body>> \in T.unread
          /\ Returns(request.op, "failed")
       \/ reply.is = "unauthorised" /\ Returns(request.op, "unauthorised")
       \/ reply.is = "lost" /\ Returns(request.op, "failed")
    /\ UNCHANGED <<object, request, reply, now, ahead, wanted, done>>

(* A program has ended; another one starts.                                *)
Restart ==
    /\ pc = "exited"
    /\ \E l \in Languages : Fresh(l)
    /\ UNCHANGED <<now, ahead>>

-----------------------------------------------------------------------------
(* The server (not part of the repository).                                *)

Says(is) == reply' = [is |-> is, token |-> Nobody, body |-> "empty", at |-> now]

Grant ==
    /\ pc = "asking" /\ reply.is = "pending"
    /\ LET valid == request.iat <= now /\ now <= request.exp IN
       \/ /\ valid
          /\ reply' = [is |-> "token", body |-> "empty", at |-> now,
                       token |-> Token(request.who, request.org, now + Lifetime)]
       \/ ~(valid /\ T.identifies) /\ Says("refused")
       \/ Says("lost")
    /\ UNCHANGED <<object, pc, request, result, now, ahead, wanted, done>>

Valid(c) == c.kind = "basic" \/ now < c.until

Bodies == [create |-> {"object"}, read |-> {"object", "list"},
           update |-> {"object", "empty"}, delete |-> {"empty"}]

(* Of several credentials the server takes one, or it takes none.          *)
Serve ==
    /\ pc = "calling" /\ reply.is = "pending"
    /\ \/ /\ \E c \in request.with : Valid(c) /\ done' = c
          /\ \/ \E b \in Bodies[request.op] :
                   reply' = [is |-> "answer", token |-> Nobody, body |-> b, at |-> now]
             \/ Says("lost")
       \/ Says("lost") /\ UNCHANGED done
       \/ /\ \A c \in request.with : ~Valid(c) \/ request.with # {c}
          /\ Says("unauthorised") /\ UNCHANGED done
    /\ UNCHANGED <<object, pc, request, result, now, ahead, wanted>>

Tick ==
    /\ now < MaxTime
    /\ now' = now + 1
    /\ UNCHANGED <<object, pc, request, reply, result, ahead, wanted, done>>

-----------------------------------------------------------------------------
Next ==
    \/ \E a \in Accounts : SetBasic(a) \/ SetBearer(a)
    \/ \E op \in TokenOps : AskToken(op) \/ AskInVain(op)
    \/ \E m \in Methods : Call(m)
    \/ TakeToken \/ TakeAnswer \/ Restart
    \/ Grant \/ Serve \/ Tick

Spec == Init /\ [][Next]_vars

-----------------------------------------------------------------------------
(* Properties.                                                             *)

(* A call that returns without error was carried out, and with the         *)
(* credentials the program set last.  C++ keeps the first header it was    *)
(* given; Rust sends a password beside an earlier token.                   *)
ActsAsLastSet ==
    result.op \in Methods /\ result.is = "ok" =>
        /\ done # Nobody
        /\ lang \notin {"cpp", "rust"} => done = wanted

(* A call is only refused when no credentials were set, or the token set   *)
(* last has expired: asking for another one helps.                         *)
FreshTokenWorks ==
    result.is = "unauthorised" /\ lang \notin {"cpp", "rust"} =>
        wanted = Nobody \/ (wanted.kind = "bearer" /\ wanted.until <= reply.at)

(* No token is asked for in the name of one account and the organisation   *)
(* of another.  Java adds the data of an account to those of the one       *)
(* before, whose organisation stays when the new one has none.             *)
ClaimsOfOneAccount ==
    pc = "asking" /\ lang # "java" => request.org \in {None, request.who}

(* A token is granted as long as the program's clock is not more than the  *)
(* offset ahead, and it is not so late that the claims are too old when    *)
(* they arrive.  JavaScript does not say which program is asking.          *)
TokenGranted ==
    result.is = "refused" /\ lang # "javascript" =>
        \/ ahead > JWT_CLIENT_SERVER_OFFSET
        \/ reply.at - request.at - ahead > JWT_VALIDITY

(* What the server has done and said so is not reported as failed.  Go     *)
(* reads no list, and Java nothing that is empty.                          *)
AnswersRead ==
    result.op \in Methods /\ result.is = "failed" /\ lang \notin {"go", "java"} =>
        reply.is = "lost"
=============================================================================
