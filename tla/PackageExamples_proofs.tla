------------------------ MODULE PackageExamples_proofs ------------------------
(***************************************************************************)
(* Theorems about the programs that send packages, for any workspaces and  *)
(* any number of runs.  The lists of steps are looked at once (Scripts);   *)
(* the invariants speak of the position that a program has reached in its  *)
(* list.                                                                   *)
(***************************************************************************)
EXTENDS PackageExamples, FiniteSetTheorems, SequenceTheorems, TLAPS

Early == {"configure", "scope", "workspace", "inbox"}   \* the settings are looked up
CreateSteps == {"create", "create_remote", "folder_upload"}
TransferSteps == {"transfer", "remote"}
StepNames ==
    Early \cup CreateSteps \cup TransferSteps \cup
    {"self", "default", "contact", "spec", "folder", "node", "announce", "token", "sources"}

Verified == Rust \cup JavaScript \cup {"cpp_aoc"}
Twofold == {"ruby_aoc", "java_faspex5", "python_faspex5"}

(* The step at which a program creates something for the first time.       *)
Creation ==
    [rust_aoc |-> 5, cpp_aoc |-> 6, js_aoc |-> 6, python_aoc |-> 6, java_aoc |-> 6,
     ruby_aoc |-> 6, csharp_aoc |-> 6, rust_faspex5 |-> 3, go_faspex5 |-> 3,
     js_faspex5 |-> 3, java_faspex5 |-> 3, python_faspex5 |-> 4, rust_server |-> 2]

(* The settings come first, then the creation, then what needs it.         *)
InOrder(e, c) ==
    /\ c \in DOMAIN Steps[e] /\ Steps[e][c] \in CreateSteps
    /\ \A q \in DOMAIN Steps[e] :
          /\ Steps[e][q] \in CreateSteps => c <= q
          /\ Steps[e][q] \in Early => q < c
          /\ Steps[e][q] \in TransferSteps \cup {"announce"} => c < q
          /\ Steps[e][q] \in {"default", "contact"} => e \in CSharp
          /\ Steps[e][q] = "folder" => <<e, "folder">> \in Careless
    /\ Steps[e][1] = "configure"
    /\ e \in JavaScript => 2 \in DOMAIN Steps[e] /\ Steps[e][2] = "scope"

(* One creation, and one transfer, which comes last.                       *)
CreatesOnce(e, c) ==
    \A q \in DOMAIN Steps[e] :
        /\ Steps[e][q] \in CreateSteps <=> q = c
        /\ Steps[e][q] \in TransferSteps <=> q = Len(Steps[e])
        /\ Steps[e][q] # "create_remote"

AddsSources(e, f) ==
    /\ 1 < f /\ f < Len(Steps[e])
    /\ \A q \in DOMAIN Steps[e] :
          /\ Steps[e][q] = "sources" <=> q = f
          /\ Steps[e][q] = "spec" => q < f

(* Files are added just before they are sent, and a transfer between        *)
(* servers is asked for where a package for it was made.                   *)
Prepares(e) ==
    \A q \in DOMAIN Steps[e] :
        /\ Steps[e][q] = "transfer" => 1 < q /\ Steps[e][q - 1] = "sources"
        /\ Steps[e][q] = "folder" => 1 < q /\ Steps[e][q - 1] = "create_remote"
        /\ Steps[e][q] = "remote" => 1 < q /\ Steps[e][q - 1] = "folder"

AnnouncesLater(e, c) == c + 2 \in DOMAIN Steps[e] /\ Steps[e][c + 2] = "announce"

Later == {"rust_aoc", "cpp_aoc", "js_aoc"}

(* What the proofs use of the lists of steps.                              *)
LEMMA Scripts ==
    ASSUME NEW e \in DOMAIN Steps
    PROVE  /\ Steps[e] \in Seq(StepNames)
           /\ InOrder(e, Creation[e])
           /\ Prepares(e)
           /\ e \notin Twofold => CreatesOnce(e, Creation[e])
           /\ e \in Verified => \E f \in DOMAIN Steps[e] : AddsSources(e, f)
           /\ e \in Later => AnnouncesLater(e, Creation[e])
<1> USE DEF Fill, FillAnnounced, Faspex5, Faspex5Remote, Early, CreateSteps, TransferSteps,
            Rust, JavaScript, CSharp, Java, Python, StartAtOnce, Careless, Verified, Twofold,
            Later, Creation
<1>1. CASE e = "rust_aoc"
  <2>1. Steps[e] \in Seq(StepNames)
    BY <1>1 DEF Steps, StepNames
  <2>2. InOrder(e, 5) /\ Creation[e] = 5
    BY <1>1 DEF Steps, InOrder
  <2>3. CreatesOnce(e, 5)
    BY <1>1 DEF Steps, CreatesOnce
  <2>4. 9 \in DOMAIN Steps[e] /\ AddsSources(e, 9)
    BY <1>1 DEF Steps, AddsSources
  <2>5. AnnouncesLater(e, 5)
    BY <1>1 DEF Steps, AnnouncesLater
  <2>6. Prepares(e)
    BY <1>1 DEF Steps, Prepares
  <2> QED BY <1>1, <2>1, <2>2, <2>3, <2>4, <2>5, <2>6
<1>2. CASE e = "cpp_aoc"
  <2>1. Steps[e] \in Seq(StepNames)
    BY <1>2 DEF Steps, StepNames
  <2>2. InOrder(e, 6) /\ Creation[e] = 6
    BY <1>2 DEF Steps, InOrder
  <2>3. CreatesOnce(e, 6)
    BY <1>2 DEF Steps, CreatesOnce
  <2>4. 10 \in DOMAIN Steps[e] /\ AddsSources(e, 10)
    BY <1>2 DEF Steps, AddsSources
  <2>5. AnnouncesLater(e, 6)
    BY <1>2 DEF Steps, AnnouncesLater
  <2>6. Prepares(e)
    BY <1>2 DEF Steps, Prepares
  <2> QED BY <1>2, <2>1, <2>2, <2>3, <2>4, <2>5, <2>6
<1>3. CASE e = "js_aoc"
  <2>1. Steps[e] \in Seq(StepNames)
    BY <1>3 DEF Steps, StepNames
  <2>2. InOrder(e, 6) /\ Creation[e] = 6
    BY <1>3 DEF Steps, InOrder
  <2>3. CreatesOnce(e, 6)
    BY <1>3 DEF Steps, CreatesOnce
  <2>4. 10 \in DOMAIN Steps[e] /\ AddsSources(e, 10)
    BY <1>3 DEF Steps, AddsSources
  <2>5. AnnouncesLater(e, 6)
    BY <1>3 DEF Steps, AnnouncesLater
  <2>6. Prepares(e)
    BY <1>3 DEF Steps, Prepares
  <2> QED BY <1>3, <2>1, <2>2, <2>3, <2>4, <2>5, <2>6
<1>4. CASE e = "python_aoc"
  <2>1. Steps[e] \in Seq(StepNames)
    BY <1>4 DEF Steps, StepNames
  <2>2. InOrder(e, 6) /\ Creation[e] = 6
    BY <1>4 DEF Steps, InOrder
  <2>3. CreatesOnce(e, 6)
    BY <1>4 DEF Steps, CreatesOnce
  <2>4. Prepares(e)
    BY <1>4 DEF Steps, Prepares
  <2> QED BY <1>4, <2>1, <2>2, <2>3, <2>4
<1>5. CASE e = "java_aoc"
  <2>1. Steps[e] \in Seq(StepNames)
    BY <1>5 DEF Steps, StepNames
  <2>2. InOrder(e, 6) /\ Creation[e] = 6
    BY <1>5 DEF Steps, InOrder
  <2>3. CreatesOnce(e, 6)
    BY <1>5 DEF Steps, CreatesOnce
  <2>4. Prepares(e)
    BY <1>5 DEF Steps, Prepares
  <2> QED BY <1>5, <2>1, <2>2, <2>3, <2>4
<1>6. CASE e = "ruby_aoc"
  <2>1. Steps[e] \in Seq(StepNames)
    BY <1>6 DEF Steps, StepNames
  <2>2. InOrder(e, 6) /\ Creation[e] = 6
    BY <1>6 DEF Steps, InOrder
  <2>3. Prepares(e)
    BY <1>6 DEF Steps, Prepares
  <2> QED BY <1>6, <2>1, <2>2, <2>3
<1>7. CASE e = "csharp_aoc"
  <2>1. Steps[e] \in Seq(StepNames)
    BY <1>7 DEF Steps, StepNames
  <2>2. InOrder(e, 6) /\ Creation[e] = 6
    BY <1>7 DEF Steps, InOrder
  <2>3. CreatesOnce(e, 6)
    BY <1>7 DEF Steps, CreatesOnce
  <2>4. Prepares(e)
    BY <1>7 DEF Steps, Prepares
  <2> QED BY <1>7, <2>1, <2>2, <2>3, <2>4
<1>8. CASE e = "rust_faspex5"
  <2>1. Steps[e] \in Seq(StepNames)
    BY <1>8 DEF Steps, StepNames
  <2>2. InOrder(e, 3) /\ Creation[e] = 3
    BY <1>8 DEF Steps, InOrder
  <2>3. CreatesOnce(e, 3)
    BY <1>8 DEF Steps, CreatesOnce
  <2>4. 5 \in DOMAIN Steps[e] /\ AddsSources(e, 5)
    BY <1>8 DEF Steps, AddsSources
  <2>5. Prepares(e)
    BY <1>8 DEF Steps, Prepares
  <2> QED BY <1>8, <2>1, <2>2, <2>3, <2>4, <2>5
<1>9. CASE e = "go_faspex5"
  <2>1. Steps[e] \in Seq(StepNames)
    BY <1>9 DEF Steps, StepNames
  <2>2. InOrder(e, 3) /\ Creation[e] = 3
    BY <1>9 DEF Steps, InOrder
  <2>3. CreatesOnce(e, 3)
    BY <1>9 DEF Steps, CreatesOnce
  <2>4. Prepares(e)
    BY <1>9 DEF Steps, Prepares
  <2> QED BY <1>9, <2>1, <2>2, <2>3, <2>4
<1>10. CASE e = "js_faspex5"
  <2>1. Steps[e] \in Seq(StepNames)
    BY <1>10 DEF Steps, StepNames
  <2>2. InOrder(e, 3) /\ Creation[e] = 3
    BY <1>10 DEF Steps, InOrder
  <2>3. CreatesOnce(e, 3)
    BY <1>10 DEF Steps, CreatesOnce
  <2>4. 5 \in DOMAIN Steps[e] /\ AddsSources(e, 5)
    BY <1>10 DEF Steps, AddsSources
  <2>5. Prepares(e)
    BY <1>10 DEF Steps, Prepares
  <2> QED BY <1>10, <2>1, <2>2, <2>3, <2>4, <2>5
<1>11. CASE e = "java_faspex5"
  <2>1. Steps[e] \in Seq(StepNames)
    BY <1>11 DEF Steps, StepNames
  <2>2. InOrder(e, 3) /\ Creation[e] = 3
    BY <1>11 DEF Steps, InOrder
  <2>3. Prepares(e)
    BY <1>11 DEF Steps, Prepares
  <2> QED BY <1>11, <2>1, <2>2, <2>3
<1>12. CASE e = "python_faspex5"
  <2>1. Steps[e] \in Seq(StepNames)
    BY <1>12 DEF Steps, StepNames
  <2>2. InOrder(e, 4) /\ Creation[e] = 4
    BY <1>12 DEF Steps, InOrder
  <2>3. Prepares(e)
    BY <1>12 DEF Steps, Prepares
  <2> QED BY <1>12, <2>1, <2>2, <2>3
<1>13. CASE e = "rust_server"
  <2>1. Steps[e] \in Seq(StepNames)
    BY <1>13 DEF Steps, StepNames
  <2>2. InOrder(e, 2) /\ Creation[e] = 2
    BY <1>13 DEF Steps, InOrder
  <2>3. CreatesOnce(e, 2)
    BY <1>13 DEF Steps, CreatesOnce
  <2>4. 3 \in DOMAIN Steps[e] /\ AddsSources(e, 3)
    BY <1>13 DEF Steps, AddsSources
  <2>5. Prepares(e)
    BY <1>13 DEF Steps, Prepares
  <2> QED BY <1>13, <2>1, <2>2, <2>3, <2>4, <2>5
<1> QED BY <1>1, <1>2, <1>3, <1>4, <1>5, <1>6, <1>7, <1>8, <1>9, <1>10,
           <1>11, <1>12, <1>13 DEF Steps

-----------------------------------------------------------------------------
(* Where a program is.  What it has still to do is the rest of its list,   *)
(* with a wait before it when a transfer was started.                      *)

Script == Steps[example]
Waiting == todo # <<>> /\ Head(todo) = "wait"
Extra == IF Waiting THEN 1 ELSE 0
Pos == Len(Script) + 1 - Len(todo) + Extra

TodoInv ==
    /\ todo \in Seq(StepNames \cup {"wait"})
    /\ outcome # "running" => todo = <<>>
    /\ outcome = "running" =>
          /\ Pos \in 1..(Len(Script) + 1)
          /\ \A k \in Pos..Len(Script) : todo[k + 1 - Pos + Extra] = Script[k]
          /\ Waiting => 1 < Pos /\ Script[Pos - 1] \in TransferSteps

(* A program that is at a step of its list is not waiting.                 *)
LEMMA AtStep ==
    ASSUME TodoInv, Script \in Seq(StepNames), NEW step \in StepNames, At(step)
    PROVE  /\ outcome = "running" /\ ~Waiting
           /\ Pos \in DOMAIN Script /\ Script[Pos] = step
<1>1. step # "wait"
  BY DEF StepNames, Early, CreateSteps, TransferSteps
<1>2. outcome = "running" /\ ~Waiting /\ todo # <<>> /\ todo[1] = step
  BY <1>1 DEF At, Waiting, TodoInv
<1>3. Len(todo) \in Nat \ {0}
  BY <1>2 DEF TodoInv
<1>4. Pos = Len(Script) + 1 - Len(todo) /\ Extra = 0
  BY <1>2, <1>3 DEF Pos, Extra
<1>5. Pos \in DOMAIN Script
  BY <1>2, <1>3, <1>4 DEF TodoInv
<1>6. todo[Pos + 1 - Pos + 0] = Script[Pos]
  BY <1>2, <1>4, <1>5 DEF TodoInv
<1> QED BY <1>2, <1>3, <1>4, <1>5, <1>6

(* A step that is done brings the program to the next one.                 *)
LEMMA StepDone ==
    ASSUME TodoInv, Script \in Seq(StepNames), NEW step \in StepNames, At(step),
           todo' = Tail(todo), outcome' = "running", example' = example
    PROVE  TodoInv' /\ ~Waiting' /\ Pos' = Pos + 1
<1>1. /\ outcome = "running" /\ ~Waiting /\ todo # <<>>
      /\ Pos \in DOMAIN Script /\ Pos = Len(Script) + 1 - Len(todo)
  BY AtStep DEF At, Pos, Extra
<1>2. /\ todo \in Seq(StepNames \cup {"wait"}) /\ Len(todo) \in Nat \ {0}
      /\ todo' \in Seq(StepNames \cup {"wait"})
      /\ Len(todo') = Len(todo) - 1 /\ \A i \in 1..Len(todo') : todo'[i] = todo[i + 1]
  BY <1>1 DEF TodoInv
<1>3. \A k \in Pos..Len(Script) : todo[k + 1 - Pos] = Script[k]
  BY <1>1 DEF TodoInv, Extra
<1>4. ~Waiting'
  <2> SUFFICES ASSUME todo' # <<>> PROVE Head(todo') # "wait"
    BY DEF Waiting
  <2>1. Head(todo') = todo[2] /\ Pos + 1 \in DOMAIN Script
    BY <1>1, <1>2
  <2>2. todo[2] = Script[Pos + 1]
    BY <1>1, <1>3, <2>1
  <2> QED BY <2>1, <2>2 DEF StepNames, Early, CreateSteps, TransferSteps
<1>5. Pos' = Pos + 1 /\ Extra' = 0 /\ Script' = Script
  BY <1>1, <1>2, <1>4 DEF Pos, Extra, Script
<1>6. ASSUME NEW k \in (Pos + 1)..Len(Script)
      PROVE  todo'[k - Pos] = Script[k]
  <2>1. todo[k + 1 - Pos] = Script[k] /\ k - Pos \in 1..Len(todo')
    BY <1>1, <1>2, <1>3
  <2>2. k + 1 - Pos = (k - Pos) + 1
    BY <1>1
  <2> QED BY <1>2, <2>1, <2>2
<1>7. TodoInv'
  BY <1>1, <1>2, <1>4, <1>5, <1>6 DEF TodoInv
<1> QED BY <1>4, <1>5, <1>7

(* So does the end of a wait, after the transfer.                          *)
LEMMA WaitDone ==
    ASSUME TodoInv, Script \in Seq(StepNames), At("wait"),
           todo' = Tail(todo), outcome' = "running", example' = example
    PROVE  /\ TodoInv' /\ ~Waiting' /\ Pos' = Pos
           /\ outcome = "running" /\ Waiting
<1>1. outcome = "running" /\ Waiting /\ todo # <<>>
  BY DEF At, Waiting
<1>2. /\ Extra = 1 /\ Pos \in 1..(Len(Script) + 1) /\ Pos = Len(Script) + 2 - Len(todo)
      /\ \A k \in Pos..Len(Script) : todo[k + 2 - Pos] = Script[k]
  BY <1>1 DEF TodoInv, Pos, Extra
<1>3. /\ todo \in Seq(StepNames \cup {"wait"}) /\ Len(todo) \in Nat \ {0}
      /\ todo' \in Seq(StepNames \cup {"wait"})
      /\ Len(todo') = Len(todo) - 1 /\ \A i \in 1..Len(todo') : todo'[i] = todo[i + 1]
  BY <1>1 DEF TodoInv
<1>4. \A k \in Pos..Len(Script) : todo'[k + 1 - Pos] = Script[k]
  BY <1>2, <1>3
<1>5. ~Waiting'
  <2> SUFFICES ASSUME todo' # <<>> PROVE Head(todo') # "wait"
    BY DEF Waiting
  <2>1. Head(todo') = todo'[1] /\ Pos \in DOMAIN Script
    BY <1>2, <1>3
  <2>2. todo'[1] = Script[Pos]
    BY <1>4, <2>1
  <2> QED BY <2>1, <2>2 DEF StepNames, Early, CreateSteps, TransferSteps
<1>6. Pos' = Pos /\ Extra' = 0 /\ Script' = Script
  <2>1. Script' = Script /\ Extra' = 0 /\ Len(Script) \in Nat
    BY <1>5 DEF Extra, Script
  <2> QED BY <1>2, <1>3, <2>1 DEF Pos
<1>7. TodoInv'
  BY <1>2, <1>3, <1>4, <1>5, <1>6 DEF TodoInv
<1> QED BY <1>1, <1>5, <1>6, <1>7

(* A transfer that was started is waited for.                              *)
LEMMA TransferStarted ==
    ASSUME TodoInv, Script \in Seq(StepNames), NEW step \in TransferSteps, At(step),
           todo' = <<"wait">> \o Tail(todo), UNCHANGED <<outcome, example>>
    PROVE  TodoInv' /\ Waiting' /\ Pos' = Pos + 1
<1>1. /\ outcome = "running" /\ ~Waiting /\ todo # <<>>
      /\ Pos \in DOMAIN Script /\ Script[Pos] = step /\ Pos = Len(Script) + 1 - Len(todo)
  BY AtStep DEF At, Pos, Extra, StepNames
<1>2. /\ todo \in Seq(StepNames \cup {"wait"}) /\ Len(todo) \in Nat \ {0}
      /\ todo' \in Seq(StepNames \cup {"wait"})
      /\ Len(todo') = Len(todo) /\ todo'[1] = "wait"
      /\ \A i \in 2..Len(todo') : todo'[i] = todo[i]
  BY <1>1 DEF TodoInv
<1>3. Waiting'
  BY <1>2 DEF Waiting
<1>4. Pos' = Pos + 1 /\ Extra' = 1 /\ Script' = Script
  BY <1>1, <1>2, <1>3 DEF Pos, Extra, Script
<1>5. \A k \in Pos..Len(Script) : todo[k + 1 - Pos] = Script[k]
  BY <1>1 DEF TodoInv, Extra
<1>6. \A k \in (Pos + 1)..Len(Script) : todo'[k + 1 - Pos] = Script[k]
  BY <1>1, <1>2, <1>5
<1>7. TodoInv'
  BY <1>1, <1>2, <1>3, <1>4, <1>6 DEF TodoInv
<1> QED BY <1>3, <1>4, <1>7

(* What an action does to the position.                                    *)
Forward(names) ==
    /\ outcome = "running" /\ ~Waiting /\ Pos \in DOMAIN Script /\ Script[Pos] \in names
    /\ outcome' = "running" /\ ~Waiting' /\ Pos' = Pos + 1
Stops(names) ==
    /\ outcome = "running" /\ ~Waiting /\ Pos \in DOMAIN Script /\ Script[Pos] \in names
    /\ outcome' = "failure"
Stays == outcome' = outcome /\ (Waiting' <=> Waiting) /\ Pos' = Pos
Begins == outcome' = "running" /\ ~Waiting' /\ Pos' = 1

Asked == {"configure", "scope", "self", "node", "token", "folder"}

(* Every action that does a step moves the program to the next one.        *)
LEMMA StepMoves ==
    ASSUME TodoInv, Script \in Seq(StepNames), UNCHANGED world
    PROVE  /\ Ask => TodoInv' /\ Forward(Asked)
           /\ GetTransferSpec => TodoInv' /\ Forward({"spec"})
           /\ Workspace => TodoInv' /\ Forward({"workspace", "default"})
           /\ SharedInbox => TodoInv' /\ Forward({"inbox"})
           /\ Contact => TodoInv' /\ Forward({"contact"})
           /\ Create => TodoInv' /\ Forward(CreateSteps)
           /\ AddSources => TodoInv' /\ Forward({"sources"})
           /\ NotStarted => TodoInv' /\ Forward({"transfer"})
<1>1. example' = example
  BY DEF world
<1>2. ASSUME NEW step \in StepNames, At(step), todo' = Tail(todo), outcome' = outcome
      PROVE  TodoInv' /\ Forward({step})
  <2>1. outcome = "running" /\ ~Waiting /\ Pos \in DOMAIN Script /\ Script[Pos] = step
    BY <1>2, AtStep
  <2>2. TodoInv' /\ ~Waiting' /\ Pos' = Pos + 1
    BY <1>1, <1>2, <2>1, StepDone
  <2> QED BY <1>2, <2>1, <2>2 DEF Forward
<1>3. ASSUME Ask \/ GetTransferSpec \/ Workspace \/ SharedInbox \/ Contact \/ Create
             \/ AddSources \/ NotStarted
      PROVE  todo' = Tail(todo) /\ outcome' = outcome
  BY <1>3 DEF Ask, GetTransferSpec, Workspace, SharedInbox, Contact, Create, AddSources,
     NotStarted, GoOn
<1>4. ASSUME NEW names \in SUBSET StepNames, \E step \in names : At(step),
             todo' = Tail(todo), outcome' = outcome
      PROVE  TodoInv' /\ Forward(names)
  BY <1>2, <1>4 DEF Forward
<1>5. /\ Ask => \E step \in Asked : At(step)
      /\ GetTransferSpec => \E step \in {"spec"} : At(step)
      /\ Workspace => \E step \in {"workspace", "default"} : At(step)
      /\ SharedInbox => \E step \in {"inbox"} : At(step)
      /\ Contact => \E step \in {"contact"} : At(step)
      /\ Create => \E step \in CreateSteps : At(step)
      /\ AddSources => \E step \in {"sources"} : At(step)
      /\ NotStarted => \E step \in {"transfer"} : At(step)
  BY DEF Ask, GetTransferSpec, Workspace, SharedInbox, Contact, Create, Creates, AddSources,
         NotStarted, Unheeded, Asked, CreateSteps
<1>6. /\ Asked \subseteq StepNames /\ {"spec"} \subseteq StepNames
      /\ {"workspace", "default"} \subseteq StepNames /\ {"inbox"} \subseteq StepNames
      /\ {"contact"} \subseteq StepNames /\ CreateSteps \subseteq StepNames
      /\ {"sources"} \subseteq StepNames /\ {"transfer"} \subseteq StepNames
  BY DEF Asked, StepNames, Early, TransferSteps
<1> QED BY <1>3, <1>4, <1>5, <1>6

(* The actions that end a run, or may.                                     *)
LEMMA EndMoves ==
    ASSUME TodoInv, Script \in Seq(StepNames), UNCHANGED world
    PROVE  /\ Fails => TodoInv' /\ Stops(StepNames)
           /\ Success => /\ TodoInv' /\ outcome = "running" /\ outcome' = "success"
                         /\ ~Waiting /\ Pos = Len(Script) + 1
           /\ CreateLost => TodoInv' /\ Stops({"create", "create_remote"})
           /\ Announce => TodoInv' /\ (Forward({"announce"}) \/ Stops({"announce"}))
           /\ Killed => TodoInv' /\ outcome' = "killed"
           /\ Rerun => TodoInv' /\ Begins /\ outcome # "running"
<1>1. example' = example
  BY DEF world
<1>2. ASSUME todo' = <<>>, outcome' \in {"success", "failure", "killed"}
      PROVE  TodoInv'
  BY <1>2 DEF TodoInv
<1>3. ASSUME Fails PROVE TodoInv' /\ Stops(StepNames)
  <2>1. /\ outcome = "running" /\ todo # <<>> /\ Head(todo) # "wait"
        /\ outcome' = "failure" /\ todo' = <<>>
    BY <1>3 DEF Fails, Ends
  <2>2. At(Head(todo)) /\ Head(todo) \in StepNames
    BY <2>1 DEF At, TodoInv
  <2>3. ~Waiting /\ Pos \in DOMAIN Script /\ Script[Pos] \in StepNames
    BY <2>2, AtStep
  <2> QED BY <1>2, <2>1, <2>3 DEF Stops
<1>4. ASSUME Success
      PROVE  /\ TodoInv' /\ outcome = "running" /\ outcome' = "success"
             /\ ~Waiting /\ Pos = Len(Script) + 1
  <2>1. /\ outcome = "running" /\ todo = <<>> /\ outcome' = "success" /\ todo' = <<>>
    BY <1>4 DEF Success, Ends
  <2>2. ~Waiting /\ Len(todo) = 0 /\ Len(Script) \in Nat
    BY <2>1 DEF Waiting
  <2> QED BY <1>2, <2>1, <2>2 DEF Pos, Extra
<1>5. ASSUME CreateLost PROVE TodoInv' /\ Stops({"create", "create_remote"})
  <2>1. PICK step \in {"create", "create_remote"} : At(step)
    BY <1>5 DEF CreateLost
  <2>2. outcome' = "failure" /\ todo' = <<>>
    BY <1>5 DEF CreateLost, Ends
  <2>3. outcome = "running" /\ ~Waiting /\ Pos \in DOMAIN Script /\ Script[Pos] = step
    BY <2>1, AtStep DEF StepNames, CreateSteps
  <2> QED BY <1>2, <2>2, <2>3 DEF Stops
<1>6. ASSUME Announce PROVE TodoInv' /\ (Forward({"announce"}) \/ Stops({"announce"}))
  <2>1. At("announce") /\ "announce" \in StepNames
    BY <1>6 DEF Announce, StepNames
  <2>2. outcome = "running" /\ ~Waiting /\ Pos \in DOMAIN Script /\ Script[Pos] = "announce"
    BY <2>1, AtStep
  <2>3. CASE GoOn
    BY <1>1, <2>1, <2>2, <2>3, StepDone DEF GoOn, Forward
  <2>4. CASE Ends("failure")
    BY <1>2, <2>2, <2>4 DEF Ends, Stops
  <2> QED BY <1>6, <2>3, <2>4 DEF Announce
<1>7. ASSUME Killed PROVE TodoInv' /\ outcome' = "killed"
  BY <1>2, <1>7 DEF Killed
<1>8. ASSUME Rerun PROVE TodoInv' /\ Begins /\ outcome # "running"
  <2>1. /\ todo' = Script /\ outcome' = "running" /\ outcome # "running"
        /\ Script' = Script
    BY <1>1, <1>8 DEF Rerun, Script
  <2>2. /\ Len(Script) \in Nat /\ "wait" \notin StepNames
        /\ \A k \in 1..Len(Script) : Script[k] \in StepNames
    BY DEF StepNames, Early, CreateSteps, TransferSteps
  <2>3. ~Waiting'
    BY <2>1, <2>2 DEF Waiting
  <2>4. Pos' = 1 /\ Extra' = 0
    BY <2>1, <2>2, <2>3 DEF Pos, Extra
  <2> QED BY <2>1, <2>2, <2>3, <2>4 DEF TodoInv, Begins
<1> QED BY <1>3, <1>4, <1>5, <1>6, <1>7, <1>8

(* The transfer, and the actions of the world.                             *)
LEMMA TransferMoves ==
    ASSUME TodoInv, Script \in Seq(StepNames), UNCHANGED world
    PROVE  /\ Transfer => /\ TodoInv' /\ outcome = "running" /\ outcome' = "running"
                          /\ ~Waiting /\ Pos \in DOMAIN Script
                          /\ Script[Pos] \in TransferSteps /\ Waiting' /\ Pos' = Pos + 1
           /\ Wait => /\ TodoInv' /\ outcome = "running" /\ Waiting
                      /\ \/ outcome' = "running" /\ ~Waiting' /\ Pos' = Pos
                         \/ outcome' = "failure"
           /\ UNCHANGED <<todo, outcome>> => TodoInv' /\ Stays
<1>1. example' = example
  BY DEF world
<1>2. ASSUME Transfer
      PROVE  /\ TodoInv' /\ outcome = "running" /\ outcome' = "running"
             /\ ~Waiting /\ Pos \in DOMAIN Script
             /\ Script[Pos] \in TransferSteps /\ Waiting' /\ Pos' = Pos + 1
  <2>1. PICK step \in TransferSteps : At(step)
    BY <1>2 DEF Transfer, TransferSteps
  <2>2. outcome = "running" /\ ~Waiting /\ Pos \in DOMAIN Script /\ Script[Pos] = step
    BY <2>1, AtStep DEF StepNames
  <2>3. outcome' = outcome /\ todo' = <<"wait">> \o Tail(todo)
    BY <1>2 DEF Transfer
  <2> QED BY <1>1, <2>1, <2>2, <2>3, TransferStarted
<1>3. ASSUME Wait
      PROVE  /\ TodoInv' /\ outcome = "running" /\ Waiting
             /\ \/ outcome' = "running" /\ ~Waiting' /\ Pos' = Pos
                \/ outcome' = "failure"
  <2>1. At("wait") /\ outcome = "running" /\ Waiting
    BY <1>3 DEF Wait, At, Waiting
  <2>2. CASE GoOn
    BY <1>1, <2>1, <2>2, WaitDone DEF GoOn
  <2>3. CASE Ends("failure")
    BY <2>1, <2>3 DEF Ends, TodoInv
  <2> QED BY <1>3, <2>2, <2>3 DEF Wait
<1>4. ASSUME UNCHANGED <<todo, outcome>> PROVE TodoInv' /\ Stays
  BY <1>1, <1>4 DEF TodoInv, Stays, Waiting, Extra, Pos, Script
<1> QED BY <1>2, <1>3, <1>4

-----------------------------------------------------------------------------
(* The invariants.                                                         *)

PackageTypes ==
    /\ example \in Examples /\ missing \in Needed \cup {None}
    /\ ws \in Workspaces \cup {None} /\ box \in Workspaces \cup {None}
    /\ job \in Deliveries \cup {None} /\ files \in 0..1
    /\ outcome \in {"running", "success", "failure", "killed"}
    /\ made \in [Deliveries -> Packages \cup {None}]
    /\ mine \subseteq Deliveries /\ up \subseteq Deliveries
    /\ status \in [Deliveries -> {"absent", "queued", "running", "completed", "failed"}]

(* After the creation there is a delivery to work on, and transfers are of *)
(* deliveries there are.                                                   *)
DeliveryInv ==
    /\ outcome = "running" /\ Creation[example] < Pos => job # None
    /\ \A d \in mine \cup ({job} \ {None}) : made[d] # None
    /\ \A d \in Deliveries : made[d] = None => status[d] = "absent"

CoreInv == PackageTypes /\ TodoInv /\ DeliveryInv

(* A program does not get past the step at which what it lacks is noticed. *)
MissingInv ==
    /\ outcome = "running" /\ missing \in Needed =>
          \A p \in DOMAIN Script : Script[p] = Checked(example, missing) => Pos <= p
    /\ missing \in Needed /\ <<example, missing>> \notin Careless =>
          \A d \in Deliveries : made[d] = None

(* A recipient is told once a transfer has come; in C#, at once.           *)
ExpectedInv ==
    example \notin CSharp => \A d \in Deliveries : made[d] # None => made[d].expected = 1

(* What was found bears the configured name, and so does what was made.    *)
FoundInv ==
    example \notin {"rust_aoc", "csharp_aoc"} =>
        /\ ws # None => named = {ws}
        /\ box # None => box = ws
        /\ \A d \in Deliveries : made[d] # None => RightPlace(d)

(* Of a program with one transfer: the deliveries of earlier runs, and     *)
(* those of a run that has failed, will never be complete, for their       *)
(* transfer was not started or has failed.                                 *)
Hopeless(d) == status[d] \in {"absent", "failed"}
RunInv ==
    example \notin Twofold =>
        /\ outcome = "running" /\ Pos <= Creation[example] => mine = {}
        /\ outcome \in {"running", "success"} => mine = {job} \ {None}
        /\ \A d \in Deliveries : made[d] # None => ~made[d].server
        /\ outcome = "running" /\ Pos <= Len(Script) => \A d \in mine : status[d] = "absent"
        /\ ~unlucky =>
              /\ outcome # "killed"
              /\ outcome = "running" /\ Waiting => job \in up
              /\ \A d \in Deliveries : d \notin mine \/ outcome = "failure" => Hopeless(d)

(* What is transferred has its files: they are listed when a transfer is   *)
(* started, and a transfer between servers is of a package made for it.    *)
Unlisted == example \in Java \cup CSharp /\ missing = "files"
Carries(d) == made[d].files = 1 \/ made[d].server
FilledInv ==
    ~Unlisted =>
        /\ outcome = "running" /\ ~Waiting /\ Pos \in DOMAIN Script =>
              /\ Script[Pos] = "transfer" => files = 1
              /\ Script[Pos] \in {"folder", "remote"} => made[job].server
        /\ \A d \in Deliveries : made[d] # None /\ status[d] # "absent" => Carries(d)

(* Of a program that only takes a complete transfer for its success.       *)
VerifiedInv ==
    example \in Verified =>
        /\ outcome = "running" =>
              /\ (\E q \in DOMAIN Script : Script[q] = "sources" /\ q < Pos) => files = 1
              /\ Len(Script) < Pos => made[job].files = 1
              /\ Len(Script) < Pos /\ ~Waiting => status[job] = "completed"
              /\ Creation[example] + (IF example \in Later THEN 2 ELSE 0) < Pos => made[job].sent
        /\ outcome = "success" => \A d \in mine : Delivers(d)


-----------------------------------------------------------------------------
(* What the actions do to the deliveries.                                  *)

(* A program is one of those whose lists Scripts has looked at.            *)
LEMMA ScriptKnown ==
    ASSUME PackageTypes
    PROVE  /\ example \in DOMAIN Steps /\ Script \in Seq(StepNames)
           /\ InOrder(example, Creation[example]) /\ Prepares(example)
           /\ example \notin Twofold => CreatesOnce(example, Creation[example])
           /\ example \in Verified => \E f \in DOMAIN Script : AddsSources(example, f)
           /\ example \in Later => AnnouncesLater(example, Creation[example])
<1>1. example \in DOMAIN Steps
  BY ExamplesAssumption DEF PackageTypes
<1> QED BY <1>1, Scripts DEF Script

(* None of the actions changes what the program was given.                 *)
LEMMA WorldStays == ASSUME [Next]_vars PROVE UNCHANGED world
BY DEF Next, vars, Program, NotStarted, Fails, Success, Ask, GetTransferSpec, Workspace,
       SharedInbox, Contact, Create, CreateLost, Announce, AddSources, Transfer, Wait,
       Advance, DaemonDies, Killed, Rerun

(* Four actions change what was made.                                      *)
LEMMA PackagesStay ==
    ASSUME [Next]_vars, ~Create, ~CreateLost, ~Announce, ~Transfer
    PROVE  made' = made
BY DEF Next, vars, Program, NotStarted, Fails, Success, Ask, GetTransferSpec, Workspace,
       SharedInbox, Contact, AddSources, Wait, Advance, DaemonDies, Killed, Rerun

(* A creation makes one delivery, as the program knows it.                 *)
LEMMA MadeEffect ==
    ASSUME PackageTypes, NEW d \in Deliveries, Made(d)
    PROVE  /\ made' \in [Deliveries -> Packages \cup {None}]
           /\ \A c \in Deliveries \ {d} : made'[c] = made[c]
           /\ made'[d] # None /\ made'[d].ws = ws /\ made'[d].to = box
           /\ made'[d].expected = 1 /\ made'[d].sent = AnnouncedAtOnce
           /\ made'[d].server = At("create_remote")
<1> DEFINE package == [ws |-> ws, to |-> box, sent |-> AnnouncedAtOnce, expected |-> 1,
                       files |-> 0, server |-> At("create_remote")]
<1>1. AnnouncedAtOnce \in BOOLEAN /\ At("create_remote") \in BOOLEAN
  BY DEF AnnouncedAtOnce, At
<1>2. package \in Packages
  BY <1>1 DEF Packages, PackageTypes
<1>3. made' = [made EXCEPT ![d] = package]
  BY DEF Made
<1>4. None \notin Packages
  BY ExamplesAssumption
<1> QED BY <1>2, <1>3, <1>4 DEF PackageTypes

(* An announcement changes what the recipient is told, and nothing else.   *)
LEMMA AnnounceEffect ==
    ASSUME PackageTypes, job \in Deliveries, made[job] # None, Announce
    PROVE  /\ made' \in [Deliveries -> Packages \cup {None}]
           /\ \A c \in Deliveries \ {job} : made'[c] = made[c]
           /\ made'[job] # None /\ made'[job].ws = made[job].ws
           /\ made'[job].to = made[job].to /\ made'[job].files = made[job].files
           /\ made'[job].server = made[job].server /\ made'[job].sent
           /\ example \notin CSharp => made'[job].expected = 1
<1> DEFINE e == IF example \in CSharp THEN 0 ELSE 1
<1> DEFINE package == [made[job] EXCEPT !.sent = TRUE, !.expected = e]
<1>1. made[job] \in Packages /\ e \in 0..1 /\ (example \notin CSharp => e = 1)
  BY DEF PackageTypes
<1>2. made' = [made EXCEPT ![job] = package]
  BY <1>1 DEF Announce, PackageTypes
<1>3. /\ package \in Packages /\ package.ws = made[job].ws /\ package.to = made[job].to
      /\ package.files = made[job].files /\ package.server = made[job].server
      /\ package.sent /\ package.expected = e
  BY <1>1 DEF Packages
<1>4. None \notin Packages
  BY ExamplesAssumption
<1> QED BY <1>1, <1>2, <1>3, <1>4 DEF PackageTypes

(* A transfer brings the files that its specification lists.               *)
LEMMA TransferEffect ==
    ASSUME PackageTypes, job \in Deliveries, made[job] # None, Transfer
    PROVE  /\ made' \in [Deliveries -> Packages \cup {None}]
           /\ \A c \in Deliveries \ {job} : made'[c] = made[c]
           /\ made'[job] # None /\ made'[job].files = files
           /\ made'[job].ws = made[job].ws /\ made'[job].to = made[job].to
           /\ made'[job].server = made[job].server /\ made'[job].sent = made[job].sent
           /\ made'[job].expected = made[job].expected
<1> DEFINE package == [made[job] EXCEPT !.files = files]
<1>1. made[job] \in Packages /\ files \in 0..1
  BY DEF PackageTypes
<1>2. made' = [made EXCEPT ![job] = package]
  BY <1>1 DEF Transfer, PackageTypes
<1>3. /\ package \in Packages /\ package.ws = made[job].ws /\ package.to = made[job].to
      /\ package.files = files /\ package.server = made[job].server
      /\ package.sent = made[job].sent /\ package.expected = made[job].expected
  BY <1>1 DEF Packages
<1>4. None \notin Packages
  BY ExamplesAssumption
<1> QED BY <1>1, <1>2, <1>3, <1>4 DEF PackageTypes


-----------------------------------------------------------------------------
(* The core of the invariant.                                              *)

(* Where a delivery is needed, there is one.                               *)
LEMMA JobThere ==
    ASSUME CoreInv
    PROVE  /\ At("announce") \/ At("transfer") \/ At("remote") \/ At("wait")
              => job \in Deliveries /\ made[job] # None
           /\ outcome = "running" /\ Creation[example] < Pos
              => job \in Deliveries /\ made[job] # None
<1>1. job # None => job \in Deliveries /\ made[job] # None
  BY DEF CoreInv, PackageTypes, DeliveryInv
<1>2. ASSUME NEW step \in {"announce", "transfer", "remote"}, At(step)
      PROVE  outcome = "running" /\ Creation[example] < Pos
  <2>1. outcome = "running" /\ Pos \in DOMAIN Script /\ Script[Pos] = step
    BY <1>2, ScriptKnown, AtStep DEF CoreInv, StepNames, TransferSteps
  <2> QED BY <2>1, ScriptKnown DEF CoreInv, InOrder, TransferSteps, Script
<1>3. ASSUME At("wait") PROVE outcome = "running" /\ Creation[example] < Pos
  <2>1. outcome = "running" /\ Waiting
    BY <1>3 DEF At, Waiting
  <2>2. Pos - 1 \in DOMAIN Script /\ Script[Pos - 1] \in TransferSteps
    BY <2>1, ScriptKnown DEF CoreInv, TodoInv
  <2>3. Creation[example] < Pos - 1 /\ Creation[example] \in Nat /\ Pos \in Int
    BY <2>1, <2>2, ScriptKnown DEF CoreInv, InOrder, Script, TodoInv
  <2> QED BY <2>1, <2>3
<1> QED BY <1>1, <1>2, <1>3 DEF CoreInv, DeliveryInv

(* A step of the program keeps the types.                                  *)
LEMMA TypesStep == ASSUME CoreInv, [Next]_vars PROVE PackageTypes'
<1> USE DEF CoreInv, PackageTypes
<1>1. UNCHANGED world
  BY WorldStays
<1>2. example' \in Examples /\ missing' \in Needed' \cup {None}
  BY <1>1 DEF world, Needed
<1>3. ASSUME NEW how \in {"success", "failure"}, Ends(how)
      PROVE  outcome' = how /\ up' \subseteq up
  BY <1>3 DEF Ends
<1>4. CASE Fails \/ Success
  BY <1>2, <1>3, <1>4 DEF Fails, Success, local
<1>5. CASE Ask \/ GetTransferSpec \/ Workspace \/ SharedInbox \/ Contact \/ AddSources
          \/ NotStarted
  BY <1>2, <1>5 DEF Ask, GetTransferSpec, Workspace, SharedInbox, Contact, AddSources,
       NotStarted, GoOn, local, jobs
<1>6. CASE Create
  BY <1>2, <1>6, MadeEffect DEF Create, jobs
<1>7. CASE CreateLost
  BY <1>2, <1>3, <1>7, MadeEffect DEF CreateLost, local
<1>8. CASE Announce
  <2>1. made' \in [Deliveries -> Packages \cup {None}]
    BY <1>8, JobThere, AnnounceEffect DEF Announce
  <2> QED BY <1>2, <1>3, <1>8, <2>1 DEF Announce, GoOn, local
<1>9. CASE Transfer
  <2>1. job \in Deliveries /\ made' \in [Deliveries -> Packages \cup {None}]
    BY <1>9, JobThere, TransferEffect DEF Transfer
  <2> QED BY <1>2, <1>9, <2>1 DEF Transfer, Jobs!Submit, local
<1>10. CASE Wait
  BY <1>2, <1>3, <1>10 DEF Wait, GoOn, local
<1>11. CASE Advance
  BY <1>2, <1>11 DEF Advance, Jobs!Advance, local
<1>12. CASE DaemonDies \/ Killed
  BY <1>2, <1>12 DEF DaemonDies, Killed, Jobs!Lose, local, jobs
<1>13. CASE Rerun
  BY <1>2, <1>13 DEF Rerun, jobs
<1>14. CASE UNCHANGED vars
  BY <1>2, <1>14 DEF vars, local, jobs
<1> QED BY <1>4, <1>5, <1>6, <1>7, <1>8, <1>9, <1>10, <1>11, <1>12, <1>13, <1>14 DEF Next, Program

(* And leaves it at a place in its list.                                   *)
LEMMA TodoStep == ASSUME CoreInv, [Next]_vars PROVE TodoInv'
<1>1. UNCHANGED world /\ TodoInv /\ Script \in Seq(StepNames)
  BY WorldStays, ScriptKnown DEF CoreInv
<1>2. CASE Ask \/ GetTransferSpec \/ Workspace \/ SharedInbox \/ Contact \/ Create \/ AddSources
          \/ NotStarted
  BY <1>1, <1>2, StepMoves
<1>3. CASE Fails \/ Success \/ CreateLost \/ Announce \/ Killed \/ Rerun
  BY <1>1, <1>3, EndMoves
<1>4. CASE Transfer \/ Wait
  BY <1>1, <1>4, TransferMoves
<1>5. CASE Advance \/ DaemonDies \/ UNCHANGED vars
  BY <1>1, <1>5, TransferMoves DEF Advance, DaemonDies, vars
<1> QED BY <1>2, <1>3, <1>4, <1>5 DEF Next, Program


(* The step of the creation is no other step.                              *)
LEMMA NotCreation ==
    ASSUME CoreInv, NEW names, Forward(names), names \cap CreateSteps = {},
           Creation[example] < Pos'
    PROVE  Creation[example] < Pos
<1>1. Creation[example] \in Nat /\ Pos \in Nat /\ Pos' = Pos + 1
  BY ScriptKnown DEF CoreInv, Forward, InOrder, Script, TodoInv
<1>2. Creation[example] # Pos
  BY ScriptKnown DEF CoreInv, Forward, InOrder, Script
<1> QED BY <1>1, <1>2

(* Deliveries are made before they are worked on.                          *)
LEMMA DeliveryStep == ASSUME CoreInv, [Next]_vars PROVE DeliveryInv'
<1> USE DEF CoreInv, DeliveryInv
<1>1. /\ UNCHANGED world /\ TodoInv /\ Script \in Seq(StepNames) /\ example' = example
      /\ PackageTypes /\ None \notin Deliveries
  BY WorldStays, ScriptKnown, ExamplesAssumption DEF world
<1>2. CASE Ask \/ GetTransferSpec \/ Workspace \/ SharedInbox \/ Contact \/ AddSources
          \/ NotStarted
  <2>1. PICK names : Forward(names) /\ names \cap CreateSteps = {}
    BY <1>1, <1>2, StepMoves DEF Asked, CreateSteps
  <2>2. UNCHANGED <<job, made, mine, status>>
    BY <1>2 DEF Ask, GetTransferSpec, Workspace, SharedInbox, Contact, AddSources,
       NotStarted, GoOn, local, jobs
  <2> QED BY <1>1, <2>1, <2>2, NotCreation DEF Forward
<1>3. CASE Create
  <2>1. PICK d \in Deliveries : /\ made[d] = None /\ Made(d)
                                /\ job' = d /\ mine' = mine \cup {d} /\ status' = status
    BY <1>3 DEF Create, jobs
  <2>2. made'[d] # None /\ \A c \in Deliveries \ {d} : made'[c] = made[c]
    BY <1>1, <2>1, MadeEffect
  <2> QED BY <1>1, <2>1, <2>2 DEF PackageTypes
<1>4. CASE CreateLost
  <2>1. PICK d \in Deliveries : made[d] = None /\ Made(d) /\ mine' = mine \cup {d}
    BY <1>4 DEF CreateLost
  <2>2. outcome' = "failure" /\ UNCHANGED <<job, status>>
    BY <1>4 DEF CreateLost, Ends, local
  <2>3. made'[d] # None /\ \A c \in Deliveries \ {d} : made'[c] = made[c]
    BY <1>1, <2>1, MadeEffect
  <2> QED BY <1>1, <2>1, <2>2, <2>3 DEF PackageTypes
<1>5. CASE Announce
  <2>1. job \in Deliveries /\ made[job] # None
    BY <1>5, JobThere DEF Announce
  <2>2. made'[job] # None /\ \A c \in Deliveries \ {job} : made'[c] = made[c]
    BY <1>1, <1>5, <2>1, AnnounceEffect
  <2>3. UNCHANGED <<job, mine, status>>
    BY <1>5 DEF Announce, GoOn, local
  <2> QED BY <1>1, <2>1, <2>2, <2>3 DEF PackageTypes
<1>6. CASE Transfer
  <2>1. job \in Deliveries /\ made[job] # None
    BY <1>6, JobThere DEF Transfer
  <2>2. made'[job] # None /\ \A c \in Deliveries \ {job} : made'[c] = made[c]
    BY <1>1, <1>6, <2>1, TransferEffect
  <2>3. /\ UNCHANGED <<job, mine>>
        /\ \A c \in Deliveries \ {job} : status'[c] = status[c]
    BY <1>1, <1>6 DEF Transfer, Jobs!Submit, local, PackageTypes
  <2> QED BY <1>1, <2>1, <2>2, <2>3 DEF PackageTypes
<1>7. CASE Wait
  <2>1. job \in Deliveries
    BY <1>7, JobThere DEF Wait
  <2>2. UNCHANGED <<job, made, mine, status>>
    BY <1>7 DEF Wait, GoOn, local
  <2> QED BY <1>1, <2>1, <2>2
<1>8. CASE Fails \/ Success
  <2>1. outcome' # "running" /\ UNCHANGED <<job, made, mine, status>>
    BY <1>8 DEF Fails, Success, Ends, local
  <2> QED BY <1>1, <2>1
<1>9. CASE Advance
  <2>1. Stays /\ UNCHANGED <<job, made, mine>>
    BY <1>1, <1>9, TransferMoves DEF Advance, local
  <2>2. PICK d \in Deliveries : Jobs!Advance(d)
    BY <1>9 DEF Advance
  <2>3. status[d] # "absent" /\ \A c \in Deliveries \ {d} : status'[c] = status[c]
    BY <1>1, <2>2 DEF Jobs!Advance, PackageTypes
  <2> QED BY <1>1, <2>1, <2>3 DEF Stays
<1>10. CASE DaemonDies \/ UNCHANGED vars
  <2>1. Stays /\ UNCHANGED <<job, made, mine, status>>
    BY <1>1, <1>10, TransferMoves DEF DaemonDies, vars, local, jobs, Jobs!Lose
  <2> QED BY <1>1, <2>1 DEF Stays
<1>11. CASE Killed
  <2>1. outcome' # "running" /\ UNCHANGED <<job, made, mine, status>>
    BY <1>11 DEF Killed, local, jobs
  <2> QED BY <1>1, <2>1
<1>12. CASE Rerun
  <2>1. Begins /\ job' = None /\ mine' = {} /\ UNCHANGED <<made, status>>
    BY <1>1, <1>12, EndMoves DEF Rerun, jobs
  <2>2. Creation[example] \in Nat \ {0}
    BY <1>1, ScriptKnown DEF InOrder, Script
  <2> QED BY <1>1, <2>1, <2>2 DEF Begins
<1> QED BY <1>2, <1>3, <1>4, <1>5, <1>6, <1>7, <1>8, <1>9, <1>10, <1>11, <1>12 DEF Next, Program


-----------------------------------------------------------------------------
(* A program that lacks something makes nothing.                           *)

(* What is missing would be noticed before the first creation.             *)
LEMMA Noticed ==
    ASSUME PackageTypes, missing \in Needed, <<example, missing>> \notin Careless
    PROVE  \E p \in DOMAIN Script :
              Script[p] = Checked(example, missing) /\ p < Creation[example]
<1>1. InOrder(example, Creation[example]) /\ Script \in Seq(StepNames)
  BY ScriptKnown
<1>2. /\ Script[1] = "configure" /\ 1 \in DOMAIN Script
      /\ \A q \in DOMAIN Script : Script[q] \in Early => q < Creation[example]
  BY <1>1 DEF InOrder, Script
<1>3. /\ missing \in Settings
      /\ missing \in {"login", "files", "ascp_level"} \/ Does(example, missing)
  BY DEF Needed
<1>4. CASE missing = "login"
  <2>1. CASE example \in JavaScript
    BY <1>1, <1>2, <1>4, <2>1 DEF InOrder, Script, Checked, Early
  <2>2. CASE example \notin JavaScript
    BY <1>2, <1>4, <2>2 DEF Checked, Early
  <2> QED BY <2>1, <2>2
<1>5. CASE missing = "files"
  <2>1. example \notin JavaScript \cup Java \cup CSharp
    BY <1>5 DEF Careless
  <2> QED BY <1>2, <1>5, <2>1 DEF Checked, Early
<1>6. CASE missing \in {"workspace", "inbox", "folder"}
  <2>1. PICK p \in DOMAIN Script : Script[p] = missing
    BY <1>3, <1>6 DEF Does, Script
  <2>2. Checked(example, missing) = missing
    BY <1>6 DEF Checked
  <2>3. missing # "folder"
    BY <1>1, <2>1 DEF InOrder, Script
  <2> QED BY <1>2, <1>6, <2>1, <2>2, <2>3 DEF Early
<1>7. CASE missing = "ascp_level"
  <2>1. example \in StartAtOnce
    BY <1>7, ScriptKnown DEF Careless
  <2> QED BY <1>2, <1>7, <2>1 DEF Checked, Early
<1> QED BY <1>3, <1>4, <1>5, <1>6, <1>7 DEF Settings

(* A step that is done is not the one that what is missing stops.          *)
LEMMA NotStopped ==
    ASSUME CoreInv, missing \in Needed, UNCHANGED world,
           \/ Ask \/ GetTransferSpec \/ Workspace \/ SharedInbox \/ Contact \/ Create
           \/ Announce \/ AddSources \/ NotStarted \/ Transfer
    PROVE  Script[Pos] # Checked(example, missing)
<1>1. TodoInv /\ Script \in Seq(StepNames) /\ missing \in Settings /\ missing # None
  BY ScriptKnown, ExamplesAssumption DEF CoreInv, Needed
<1>2. Checked(example, missing) \in
         {"configure", "scope", "sources", "workspace", "inbox", "folder", "never", "transfer"}
  BY <1>1 DEF Checked, Settings
<1>3. ASSUME NEW step \in StepNames, At(step), Complete(step)
      PROVE  Script[Pos] # Checked(example, missing)
  BY <1>1, <1>3, AtStep DEF Complete
<1>4. CASE Ask
  BY <1>3, <1>4 DEF Ask, StepNames, Early
<1>5. CASE Workspace
  <2>1. CASE At("workspace") /\ Complete("workspace")
    BY <1>3, <2>1 DEF StepNames, Early
  <2>2. CASE At("default")
    <3>1. Script[Pos] = "default"
      BY <1>1, <2>2, AtStep DEF StepNames
    <3> QED BY <1>2, <3>1
  <2> QED BY <1>5, <2>1, <2>2 DEF Workspace
<1>6. CASE SharedInbox \/ AddSources
  BY <1>3, <1>6 DEF SharedInbox, AddSources, StepNames, Early
<1>7. CASE GetTransferSpec \/ Contact \/ Create
  BY <1>1, <1>2, <1>7, StepMoves DEF Forward, CreateSteps
<1>8. CASE Announce
  BY <1>1, <1>2, <1>8, EndMoves DEF Forward, Stops
<1>9. CASE NotStarted
  BY <1>3, <1>9 DEF NotStarted, Unheeded, StepNames, TransferSteps
<1>10. CASE Transfer
  <2>1. CASE At("transfer") /\ Complete("transfer")
    BY <1>3, <2>1 DEF StepNames, TransferSteps
  <2>2. CASE At("remote")
    <3>1. Script[Pos] = "remote"
      BY <1>1, <2>2, AtStep DEF StepNames, TransferSteps
    <3> QED BY <1>2, <3>1
  <2> QED BY <1>10, <2>1, <2>2 DEF Transfer
<1> QED BY <1>4, <1>5, <1>6, <1>7, <1>8, <1>9, <1>10

(* Which the program therefore never gets past.                            *)
LEMMA MissingStep == ASSUME CoreInv, MissingInv, [Next]_vars PROVE MissingInv'
<1>1. /\ UNCHANGED world /\ UNCHANGED <<Script, example, missing, Needed>>
      /\ TodoInv /\ Script \in Seq(StepNames) /\ PackageTypes
  BY WorldStays, ScriptKnown DEF CoreInv, world, Script, Needed, Does
<1>2. ASSUME outcome' = "running", missing \in Needed, NEW p \in DOMAIN Script,
             Script[p] = Checked(example, missing)
      PROVE  Pos' <= p
  <2>1. outcome = "running" => Pos <= p /\ Pos \in Nat
    BY <1>2 DEF CoreInv, MissingInv, TodoInv
  <2>2. CASE Ask \/ GetTransferSpec \/ Workspace \/ SharedInbox \/ Contact \/ Create
             \/ AddSources \/ NotStarted
    <3>1. outcome = "running" /\ Pos' = Pos + 1
      BY <1>1, <2>2, StepMoves DEF Forward
    <3> QED BY <1>1, <1>2, <2>1, <2>2, <3>1, NotStopped
  <2>3. CASE Announce \/ Transfer
    <3>1. outcome = "running" /\ Pos' = Pos + 1
      BY <1>1, <1>2, <2>3, EndMoves, TransferMoves DEF Forward, Stops
    <3> QED BY <1>1, <1>2, <2>1, <2>3, <3>1, NotStopped
  <2>4. CASE Fails \/ Success \/ CreateLost \/ Killed
    BY <1>1, <1>2, <2>4, EndMoves DEF Stops
  <2>5. CASE Wait
    BY <1>1, <1>2, <2>1, <2>5, TransferMoves
  <2>6. CASE Rerun
    BY <1>1, <1>2, <2>6, EndMoves DEF Begins
  <2>7. CASE Advance \/ DaemonDies \/ UNCHANGED vars
    <3>1. UNCHANGED <<todo, outcome>>
      BY <2>7 DEF Advance, DaemonDies, vars
    <3>2. Stays
      BY <1>1, <3>1, TransferMoves
    <3> QED BY <1>2, <2>1, <3>2 DEF Stays
  <2> QED BY <2>2, <2>3, <2>4, <2>5, <2>6, <2>7 DEF Next, Program
<1>3. ASSUME missing \in Needed, <<example, missing>> \notin Careless
      PROVE  \A d \in Deliveries : made'[d] = None
  <2>1. \A d \in Deliveries : made[d] = None
    BY <1>3 DEF MissingInv
  <2>2. ~(At("announce") \/ At("transfer") \/ At("remote"))
    BY <2>1, JobThere
  <2>3. ~(outcome = "running" /\ Pos \in DOMAIN Script /\ Script[Pos] \in CreateSteps)
    <3> SUFFICES ASSUME outcome = "running", Pos \in DOMAIN Script,
                        Script[Pos] \in CreateSteps
                 PROVE  FALSE
      OBVIOUS
    <3>1. PICK p \in DOMAIN Script :
             Script[p] = Checked(example, missing) /\ p < Creation[example]
      BY <1>1, <1>3, Noticed
    <3>2. /\ Pos <= p /\ Creation[example] <= Pos
          /\ Creation[example] \in Nat /\ Pos \in Nat /\ p \in Nat
      BY <1>1, <1>3, <3>1, ScriptKnown DEF MissingInv, InOrder, Script
    <3> QED BY <3>1, <3>2
  <2>4. ~Create /\ ~CreateLost
    BY <1>1, <2>3, StepMoves, EndMoves DEF Forward, Stops, CreateSteps
  <2>5. made' = made
    BY <2>2, <2>4, PackagesStay DEF Announce, Transfer
  <2> QED BY <2>1, <2>5
<1>4. UNCHANGED Careless /\ Checked(example, missing)' = Checked(example, missing)
  BY <1>1 DEF Careless, Checked
<1> QED BY <1>1, <1>2, <1>3, <1>4 DEF MissingInv


-----------------------------------------------------------------------------
(* What recipients are told, and where the deliveries are.                 *)

(* Only C# announces a package before its transfer.                        *)
LEMMA ExpectedStep == ASSUME CoreInv, ExpectedInv, [Next]_vars PROVE ExpectedInv'
<1>1. example' = example /\ PackageTypes
  BY WorldStays DEF world, CoreInv
<1> SUFFICES ASSUME example \notin CSharp, NEW d \in Deliveries, made'[d] # None
             PROVE  made'[d].expected = 1
  BY <1>1 DEF ExpectedInv, CSharp
<1>2. made[d] # None => made[d].expected = 1
  BY DEF ExpectedInv
<1>3. CASE Create \/ CreateLost
  <2>1. PICK c \in Deliveries : Made(c)
    BY <1>3 DEF Create, CreateLost
  <2> QED BY <1>1, <1>2, <2>1, MadeEffect
<1>4. CASE Announce \/ Transfer
  <2>1. job \in Deliveries /\ made[job] # None
    BY <1>4, JobThere DEF Announce, Transfer
  <2> QED BY <1>1, <1>2, <1>4, <2>1, AnnounceEffect, TransferEffect
<1> QED BY <1>2, <1>3, <1>4, PackagesStay

(* What a program has found, and what it makes, is where it should be.     *)
LEMMA FoundStep == ASSUME CoreInv, FoundInv, [Next]_vars PROVE FoundInv'
<1>1. /\ UNCHANGED world /\ example' = example /\ named' = named
      /\ PackageTypes /\ TodoInv /\ Script \in Seq(StepNames)
  BY WorldStays, ScriptKnown DEF world, CoreInv
<1> SUFFICES ASSUME example \notin {"rust_aoc", "csharp_aoc"}
             PROVE  /\ ws' # None => named = {ws'}
                    /\ box' # None => box' = ws'
                    /\ \A d \in Deliveries : made'[d] # None => RightPlace(d)'
  BY <1>1 DEF FoundInv
<1>2. /\ ws # None => named = {ws}
      /\ box # None => box = ws
      /\ \A d \in Deliveries : made[d] # None => RightPlace(d)
  BY DEF FoundInv
<1>3. None \notin Workspaces
  BY ExamplesAssumption
<1>4. ASSUME NEW step \in {"default", "contact"} PROVE ~At(step)
  <2>1. example \notin CSharp
    BY DEF CSharp
  <2> QED BY <1>1, <2>1, AtStep, ScriptKnown DEF InOrder, Script, StepNames
<1>5. (ws' # None => named = {ws'}) /\ (box' # None => box' = ws')
  <2>1. CASE Workspace
    BY <1>2, <1>3, <1>4, <2>1 DEF Workspace
  <2>2. CASE SharedInbox
    BY <1>2, <1>3, <2>2 DEF SharedInbox
  <2>3. CASE Rerun
    BY <2>3 DEF Rerun
  <2>4. CASE ~Workspace /\ ~SharedInbox /\ ~Rerun
    <3>1. ~Contact
      BY <1>4 DEF Contact
    <3>2. UNCHANGED <<ws, box>>
      BY <2>4, <3>1 DEF Next, vars, local, Program, NotStarted, Fails, Success, Ask,
         GetTransferSpec, Create, CreateLost, Announce, AddSources, Transfer, Wait, Advance,
         DaemonDies, Killed
    <3> QED BY <1>2, <3>2
  <2> QED BY <2>1, <2>2, <2>3, <2>4
<1>6. ASSUME NEW d \in Deliveries, made'[d] # None PROVE RightPlace(d)'
  <2>1. CASE Create \/ CreateLost
    <3>1. PICK c \in Deliveries : Made(c)
      BY <2>1 DEF Create, CreateLost
    <3> QED BY <1>1, <1>2, <1>6, <3>1, MadeEffect DEF RightPlace
  <2>2. CASE Announce \/ Transfer
    <3>1. job \in Deliveries /\ made[job] # None
      BY <2>2, JobThere DEF Announce, Transfer
    <3> QED BY <1>1, <1>2, <1>6, <2>2, <3>1, AnnounceEffect, TransferEffect DEF RightPlace
  <2> QED BY <1>1, <1>2, <1>6, <2>1, <2>2, PackagesStay DEF RightPlace
<1> QED BY <1>5, <1>6


-----------------------------------------------------------------------------
(* A program with one transfer.                                            *)

(* Where the steps of such a program are in its list.                      *)
LEMMA OncePlaces ==
    ASSUME CoreInv, example \notin Twofold
    PROVE  /\ Creation[example] \in Nat /\ Pos \in Int /\ Len(Script) \in Nat
           /\ outcome = "running" /\ Pos \in DOMAIN Script =>
                 /\ Pos <= Len(Script)
                 /\ Script[Pos] \in CreateSteps <=> Pos = Creation[example]
                 /\ Script[Pos] \in TransferSteps => Pos = Len(Script)
                 /\ Script[Pos] # "create_remote"
           /\ outcome = "running" /\ Waiting => Pos = Len(Script) + 1
           /\ At("transfer") \/ At("remote") \/ At("wait") => Creation[example] < Pos
<1>1. /\ CreatesOnce(example, Creation[example]) /\ InOrder(example, Creation[example])
      /\ Script \in Seq(StepNames) /\ TodoInv
  BY ScriptKnown DEF CoreInv
<1>2. Creation[example] \in Nat /\ Len(Script) \in Nat /\ Pos \in Int
  BY <1>1 DEF InOrder, Script, TodoInv, Pos, Extra
<1>3. ASSUME Pos \in DOMAIN Script
      PROVE  /\ Pos <= Len(Script)
             /\ Script[Pos] \in CreateSteps <=> Pos = Creation[example]
             /\ Script[Pos] \in TransferSteps =>
                   Pos = Len(Script) /\ Creation[example] < Pos
             /\ Script[Pos] # "create_remote"
  BY <1>1, <1>3 DEF CreatesOnce, InOrder, Script
<1>4. ASSUME outcome = "running", Waiting
      PROVE  Pos = Len(Script) + 1 /\ Creation[example] < Pos
  <2>1. Pos \in 1..(Len(Script) + 1) /\ 1 < Pos /\ Script[Pos - 1] \in TransferSteps
    BY <1>1, <1>4 DEF TodoInv
  <2>2. Pos - 1 \in DOMAIN Script
    BY <1>1, <2>1
  <2>3. Pos - 1 = Len(Script) /\ Creation[example] < Pos - 1
    BY <1>1, <2>1, <2>2 DEF CreatesOnce, InOrder, Script
  <2> QED BY <1>2, <2>3
<1>5. ASSUME NEW step \in TransferSteps, At(step) PROVE Creation[example] < Pos
  BY <1>1, <1>3, <1>5, AtStep DEF StepNames
<1>6. At("wait") => outcome = "running" /\ Waiting
  BY DEF At, Waiting
<1> QED BY <1>2, <1>3, <1>4, <1>5, <1>6 DEF TransferSteps

(* What is made or waits for its transfer has none; what fails has none    *)
(* left; only a transfer in this run moves on.                             *)
LEMMA RunStep == ASSUME CoreInv, RunInv, [Next]_vars PROVE RunInv'
<1>1. /\ UNCHANGED world /\ example' = example /\ Script' = Script
      /\ PackageTypes /\ TodoInv /\ DeliveryInv /\ Script \in Seq(StepNames)
      /\ None \notin Deliveries
  BY WorldStays, ScriptKnown, ExamplesAssumption DEF world, CoreInv, Script
<1> DEFINE c == Creation[example]
<1> DEFINE Free == outcome = "running" /\ Pos <= c => mine = {}
<1> DEFINE Own == outcome \in {"running", "success"} => mine = {job} \ {None}
<1> DEFINE Local == \A d \in Deliveries : made[d] # None => ~made[d].server
<1> DEFINE Unstarted ==
              outcome = "running" /\ Pos <= Len(Script) => \A d \in mine : status[d] = "absent"
<1> DEFINE Lucky == ~unlucky =>
              /\ outcome # "killed"
              /\ outcome = "running" /\ Waiting => job \in up
              /\ \A d \in Deliveries : d \notin mine \/ outcome = "failure" => Hopeless(d)
<1> SUFFICES ASSUME example \notin Twofold
             PROVE  Free' /\ Own' /\ Local' /\ Unstarted' /\ Lucky'
  BY <1>1 DEF RunInv, Twofold
<1>2. Free /\ Own /\ Local /\ Unstarted /\ Lucky
  BY DEF RunInv
<1>3. /\ c \in Nat /\ c' = c /\ Len(Script) \in Nat /\ Pos \in Int
      /\ outcome = "running" /\ Pos \in DOMAIN Script =>
            /\ Pos <= Len(Script)
            /\ Script[Pos] \in CreateSteps <=> Pos = c
            /\ Script[Pos] \in TransferSteps => Pos = Len(Script)
            /\ Script[Pos] # "create_remote"
      /\ outcome = "running" /\ Waiting => Pos = Len(Script) + 1
      /\ At("transfer") \/ At("remote") \/ At("wait") => c < Pos
  BY <1>1, OncePlaces
<1>4. Local'
  <2>1. CASE Create \/ CreateLost
    <3>1. PICK d \in Deliveries : Made(d)
      BY <2>1 DEF Create, CreateLost
    <3>2. ~At("create_remote")
      BY <1>1, <1>3, AtStep DEF StepNames, CreateSteps
    <3> QED BY <1>1, <1>2, <3>1, <3>2, MadeEffect
  <2>2. CASE Announce \/ Transfer
    <3>1. job \in Deliveries /\ made[job] # None
      BY <2>2, JobThere DEF Announce, Transfer
    <3> QED BY <1>1, <1>2, <2>2, <3>1, AnnounceEffect, TransferEffect
  <2> QED BY <1>2, <2>1, <2>2, PackagesStay
<1>5. CASE Ask \/ GetTransferSpec \/ Workspace \/ SharedInbox \/ Contact \/ AddSources
          \/ NotStarted
  <2>1. PICK names : Forward(names) /\ names \cap CreateSteps = {}
    BY <1>1, <1>5, StepMoves DEF Asked, CreateSteps
  <2>2. UNCHANGED <<job, mine, unlucky, status, up>>
    BY <1>5 DEF Ask, GetTransferSpec, Workspace, SharedInbox, Contact, AddSources,
       NotStarted, GoOn, local, jobs
  <2> QED BY <1>1, <1>2, <1>3, <1>4, <2>1, <2>2 DEF Forward, Hopeless
<1>6. CASE Create
  <2>1. PICK d \in Deliveries : made[d] = None /\ job' = d /\ mine' = mine \cup {d}
    BY <1>6 DEF Create
  <2>2. Forward(CreateSteps) /\ UNCHANGED <<unlucky, status, up>>
    BY <1>1, <1>6, StepMoves DEF Create, jobs
  <2>3. mine = {} /\ mine' = {job'} /\ status[d] = "absent" /\ Pos' = c + 1
    BY <1>1, <1>2, <1>3, <2>1, <2>2 DEF Forward, DeliveryInv
  <2> QED BY <1>1, <1>2, <1>3, <1>4, <2>1, <2>2, <2>3 DEF Forward, Hopeless
<1>7. CASE CreateLost
  <2>1. PICK d \in Deliveries : made[d] = None /\ mine' = mine \cup {d}
    BY <1>7 DEF CreateLost
  <2>2. Stops({"create", "create_remote"}) /\ UNCHANGED <<unlucky, status>>
    BY <1>1, <1>7, EndMoves DEF CreateLost
  <2>3. mine = {} /\ status[d] = "absent"
    BY <1>1, <1>2, <1>3, <2>1, <2>2 DEF Stops, DeliveryInv, CreateSteps
  <2> QED BY <1>1, <1>2, <1>3, <1>4, <2>1, <2>2, <2>3 DEF Stops, Hopeless
<1>8. CASE Fails \/ Announce
  <2>1. UNCHANGED <<job, mine, unlucky, status>>
    BY <1>8 DEF Fails, Announce, GoOn, local
  <2>2. Stops(StepNames) \/ Stops({"announce"}) \/ Forward({"announce"})
    BY <1>1, <1>8, EndMoves
  <2> QED BY <1>1, <1>2, <1>3, <1>4, <2>1, <2>2 DEF Stops, Forward, Hopeless, CreateSteps
<1>9. CASE Success
  BY <1>1, <1>2, <1>4, <1>9, EndMoves DEF Success, local, Hopeless
<1>10. CASE Transfer
  <2>1. job \in Deliveries /\ Jobs!Submit(job) /\ UNCHANGED <<job, mine, unlucky>>
    BY <1>10, JobThere DEF Transfer, local
  <2>2. /\ outcome = "running" /\ outcome' = "running" /\ Pos = Len(Script) /\ Waiting'
        /\ Pos' = Pos + 1 /\ c < Pos
    BY <1>1, <1>3, <1>10, TransferMoves DEF Transfer
  <2>3. mine = {job}
    BY <1>1, <1>2, <2>1, <2>2
  <2>4. job \in up' /\ \A d \in Deliveries \ {job} : status'[d] = status[d]
    BY <1>1, <2>1 DEF Jobs!Submit, PackageTypes
  <2> QED BY <1>1, <1>2, <1>3, <1>4, <2>1, <2>2, <2>3, <2>4 DEF Hopeless
<1>11. CASE Wait
  <2>1. /\ job \in Deliveries /\ made[job] # None /\ At("wait")
        /\ UNCHANGED <<job, mine, unlucky, status>>
    BY <1>11, JobThere DEF Wait, GoOn, local
  <2>2. /\ outcome = "running" /\ Waiting
        /\ \/ outcome' = "running" /\ ~Waiting' /\ Pos' = Pos
           \/ outcome' = "failure"
    BY <1>1, <1>11, TransferMoves
  <2>3. mine = {job} /\ Pos = Len(Script) + 1 /\ c < Pos
    BY <1>1, <1>2, <1>3, <2>1, <2>2
  <2>4. ~made[job].server /\ (~unlucky => job \in up)
    BY <1>2, <2>1, <2>2
  <2>5. outcome' = "failure" /\ ~unlucky => status[job] = "failed"
    BY <1>11, <2>2, <2>4 DEF Wait, GoOn
  <2> QED BY <1>1, <1>2, <1>3, <1>4, <2>1, <2>2, <2>3, <2>5 DEF Hopeless
<1>12. CASE Advance
  <2>1. PICK d \in Deliveries : Jobs!Advance(d)
    BY <1>12 DEF Advance
  <2>2. /\ status[d] \in {"queued", "running"} /\ up' = up
        /\ \A e \in Deliveries \ {d} : status'[e] = status[e]
    BY <1>1, <2>1 DEF Jobs!Advance, PackageTypes
  <2>3. Stays /\ UNCHANGED <<job, mine, unlucky>>
    BY <1>1, <1>12, TransferMoves DEF Advance, local
  <2>4. outcome = "running" /\ Pos <= Len(Script) => d \notin mine
    BY <1>2, <2>2
  <2>5. ~unlucky => d \in mine /\ outcome # "failure"
    BY <1>2, <2>2 DEF Hopeless
  <2>6. mine \subseteq Deliveries
    BY <1>1 DEF PackageTypes
  <2> QED BY <1>1, <1>2, <1>3, <1>4, <2>2, <2>3, <2>4, <2>5, <2>6 DEF Stays, Hopeless
<1>13. CASE DaemonDies
  <2>1. Stays /\ UNCHANGED <<job, mine, status>> /\ unlucky'
    BY <1>1, <1>13, TransferMoves DEF DaemonDies, local, Jobs!Lose
  <2> QED BY <1>1, <1>2, <1>3, <1>4, <2>1 DEF Stays
<1>14. CASE UNCHANGED vars
  <2>1. Stays /\ UNCHANGED <<job, mine, unlucky, status, up>>
    BY <1>1, <1>14, TransferMoves DEF vars, local, jobs
  <2> QED BY <1>1, <1>2, <1>3, <1>4, <2>1 DEF Stays, Hopeless
<1>15. CASE Killed
  <2>1. outcome' = "killed" /\ unlucky'
    BY <1>15 DEF Killed
  <2> QED BY <1>4, <2>1
<1>16. CASE Rerun
  <2>1. Begins /\ job' = None /\ mine' = {} /\ UNCHANGED <<unlucky, status, up>>
    BY <1>1, <1>16, EndMoves DEF Rerun, jobs
  <2>2. ~unlucky => \A d \in Deliveries : Hopeless(d)
    BY <1>2, <1>16 DEF Rerun
  <2> QED BY <1>1, <1>2, <1>3, <1>4, <2>1, <2>2 DEF Begins, Hopeless
<1> QED BY <1>5, <1>6, <1>7, <1>8, <1>9, <1>10, <1>11, <1>12, <1>13, <1>14, <1>15, <1>16
        DEF Next, Program


-----------------------------------------------------------------------------
(* What a transfer carries.                                                *)

(* The files are there when a program adds them to the specification.      *)
LEMMA FilesThere ==
    ASSUME CoreInv, MissingInv, ~Unlisted, AddSources
    PROVE  files' = 1
<1>1. /\ At("sources") /\ Complete("sources") /\ TodoInv /\ Script \in Seq(StepNames)
      /\ files' = IF missing = "files" THEN 0 ELSE 1
  BY ScriptKnown DEF AddSources, CoreInv
<1> SUFFICES ASSUME missing = "files" PROVE FALSE
  BY <1>1
<1>2. missing \in Needed /\ missing # None
  BY ExamplesAssumption DEF CoreInv, PackageTypes, Settings, Needed
<1>3. Checked(example, missing) # "sources"
  BY <1>1, <1>2 DEF Complete
<1>4. example \notin Java \cup CSharp
  BY DEF Unlisted
<1>5. Checked(example, missing) = "configure"
  BY <1>3, <1>4 DEF Checked
<1>6. 1 \in DOMAIN Script /\ Script[1] = "configure"
  BY ScriptKnown DEF CoreInv, InOrder, Script, Early
<1>7. outcome = "running" /\ Pos \in DOMAIN Script /\ Script[Pos] = "sources"
  BY <1>1, AtStep DEF StepNames
<1>8. Pos <= 1
  BY <1>2, <1>5, <1>6, <1>7 DEF MissingInv
<1> QED BY <1>1, <1>6, <1>7, <1>8

(* So a transfer carries them, for whoever it is.                          *)
LEMMA FilledStep == ASSUME CoreInv, MissingInv, FilledInv, [Next]_vars PROVE FilledInv'
<1>1. /\ UNCHANGED world /\ example' = example /\ missing' = missing /\ Script' = Script
      /\ PackageTypes /\ TodoInv /\ DeliveryInv /\ Script \in Seq(StepNames)
      /\ Prepares(example) /\ Script = Steps[example]
  BY WorldStays, ScriptKnown DEF world, CoreInv, Script
<1> DEFINE AtTransfer == outcome = "running" /\ ~Waiting /\ Pos \in DOMAIN Script =>
              /\ Script[Pos] = "transfer" => files = 1
              /\ Script[Pos] \in {"folder", "remote"} => made[job].server
<1> DEFINE Carried ==
              \A d \in Deliveries : made[d] # None /\ status[d] # "absent" => Carries(d)
<1> SUFFICES ASSUME ~Unlisted PROVE AtTransfer' /\ Carried'
  BY <1>1 DEF FilledInv, Unlisted, Java, CSharp
<1>2. AtTransfer /\ Carried
  BY DEF FilledInv
<1>3. \A q \in DOMAIN Script :
         /\ Script[q] = "transfer" => 1 < q /\ Script[q - 1] = "sources"
         /\ Script[q] = "folder" => 1 < q /\ Script[q - 1] = "create_remote"
         /\ Script[q] = "remote" => 1 < q /\ Script[q - 1] = "folder"
  BY <1>1 DEF Prepares
<1>4. ASSUME NEW names, Forward(names), Pos' \in DOMAIN Script
      PROVE  /\ Pos' - 1 = Pos /\ Script[Pos] \in names
             /\ Script[Pos'] = "transfer" => "sources" \in names
             /\ Script[Pos'] = "folder" => "create_remote" \in names
             /\ Script[Pos'] = "remote" => Script[Pos] = "folder"
  <2>1. Pos' = Pos + 1 /\ Script[Pos] \in names /\ Pos \in Nat
    BY <1>1, <1>4 DEF Forward
  <2>2. Pos' - 1 = Pos
    BY <2>1
  <2> QED BY <1>3, <1>4, <2>1, <2>2
<1>5. CASE Ask \/ GetTransferSpec \/ Workspace \/ SharedInbox \/ Contact \/ NotStarted
  <2>1. PICK names : Forward(names) /\ names \cap {"sources", "create_remote"} = {}
    BY <1>1, <1>5, StepMoves DEF Asked
  <2>2. UNCHANGED <<job, made, status>>
    BY <1>5 DEF Ask, GetTransferSpec, Workspace, SharedInbox, Contact, NotStarted, GoOn,
       local, jobs
  <2>3. AtTransfer'
    <3> SUFFICES ASSUME Pos' \in DOMAIN Script
                 PROVE  /\ Script[Pos'] = "transfer" => files' = 1
                        /\ Script[Pos'] \in {"folder", "remote"} => made'[job'].server
      BY <1>1
    <3>1. Script[Pos'] = "remote" => Script[Pos] = "folder"
      BY <1>4, <2>1
    <3>2. Script[Pos'] \notin {"transfer", "folder"}
      BY <1>4, <2>1
    <3> QED BY <1>2, <2>1, <2>2, <3>1, <3>2 DEF Forward
  <2>4. Carried'
    BY <1>2, <2>2 DEF Carries
  <2> QED BY <2>3, <2>4
<1>6. CASE AddSources
  <2>1. Forward({"sources"}) /\ files' = 1 /\ UNCHANGED <<made, status>>
    BY <1>1, <1>6, StepMoves, FilesThere DEF AddSources, jobs
  <2>2. Pos' \in DOMAIN Script => Script[Pos'] \notin {"folder", "remote"}
    <3> SUFFICES ASSUME Pos' \in DOMAIN Script PROVE Script[Pos'] \notin {"folder", "remote"}
      OBVIOUS
    <3>1. Script[Pos] = "sources"
      BY <2>1 DEF Forward
    <3> QED BY <1>4, <2>1, <3>1
  <2>3. AtTransfer'
    BY <1>1, <2>1, <2>2
  <2> QED BY <1>2, <2>1, <2>3 DEF Carries
<1>7. CASE Create
  <2>1. PICK d \in Deliveries : made[d] = None /\ Made(d) /\ job' = d /\ status' = status
    BY <1>7 DEF Create, jobs
  <2>2. /\ Forward(CreateSteps) /\ At(Script[Pos])
        /\ made'[d].server = At("create_remote")
        /\ \A c \in Deliveries \ {d} : made'[c] = made[c]
    <3>1. Forward(CreateSteps)
      BY <1>1, <1>7, StepMoves
    <3>2. PICK step \in CreateSteps : At(step)
      BY <1>7 DEF Create, Creates, CreateSteps
    <3>3. Script[Pos] = step
      BY <1>1, <3>2, AtStep DEF StepNames
    <3> QED BY <1>1, <2>1, <3>1, <3>2, <3>3, MadeEffect
  <2>3. AtTransfer'
    <3> SUFFICES ASSUME Pos' \in DOMAIN Script
                 PROVE  /\ Script[Pos'] # "transfer"
                        /\ Script[Pos'] \in {"folder", "remote"} => made'[job'].server
      BY <1>1
    <3>1. Script[Pos'] # "transfer" /\ Script[Pos'] # "remote"
      BY <1>4, <2>2 DEF CreateSteps
    <3>2. Script[Pos'] = "folder" => Script[Pos] = "create_remote"
      BY <1>3, <1>4, <2>2
    <3> QED BY <2>1, <2>2, <3>1, <3>2
  <2>4. Carried'
    BY <1>1, <1>2, <2>1, <2>2 DEF Carries, DeliveryInv
  <2> QED BY <2>3, <2>4
<1>8. CASE CreateLost
  <2>1. PICK d \in Deliveries : made[d] = None /\ Made(d) /\ status' = status
    BY <1>8 DEF CreateLost
  <2>2. \A c \in Deliveries \ {d} : made'[c] = made[c]
    BY <1>1, <2>1, MadeEffect
  <2>3. outcome' = "failure"
    BY <1>8 DEF CreateLost, Ends
  <2> QED BY <1>1, <1>2, <2>1, <2>2, <2>3 DEF Carries, DeliveryInv
<1>9. CASE Announce
  <2>1. job \in Deliveries /\ made[job] # None
    BY <1>9, JobThere DEF Announce
  <2>2. /\ made'[job].files = made[job].files /\ made'[job].server = made[job].server
        /\ \A c \in Deliveries \ {job} : made'[c] = made[c]
        /\ UNCHANGED <<job, files, status>>
    BY <1>1, <1>9, <2>1, AnnounceEffect DEF Announce, local
  <2>3. AtTransfer'
    <3>1. CASE Forward({"announce"})
      <4> SUFFICES ASSUME Pos' \in DOMAIN Script
                   PROVE  Script[Pos'] \notin {"transfer", "folder", "remote"}
        BY <1>1
      <4>1. Script[Pos] = "announce"
        BY <3>1 DEF Forward
      <4> QED BY <1>4, <3>1, <4>1
    <3>2. CASE outcome' = "failure"
      BY <3>2
    <3> QED BY <1>1, <1>9, <3>1, <3>2, EndMoves DEF Stops
  <2>4. Carried'
    BY <1>2, <2>1, <2>2 DEF Carries
  <2> QED BY <2>3, <2>4
<1>10. CASE Transfer
  <2>1. job \in Deliveries /\ made[job] # None
    BY <1>10, JobThere DEF Transfer
  <2>2. /\ made'[job].files = files /\ made'[job].server = made[job].server
        /\ \A c \in Deliveries \ {job} : made'[c] = made[c] /\ status'[c] = status[c]
    BY <1>1, <1>10, <2>1, TransferEffect DEF Transfer, Jobs!Submit, PackageTypes
  <2>3. /\ outcome = "running" /\ ~Waiting /\ Pos \in DOMAIN Script /\ Waiting'
        /\ Script[Pos] \in TransferSteps
    BY <1>1, <1>10, TransferMoves
  <2>4. files = 1 \/ made[job].server
    BY <1>2, <2>3 DEF TransferSteps
  <2> QED BY <1>2, <2>1, <2>2, <2>3, <2>4 DEF Carries
<1>11. CASE Wait
  <2>1. /\ UNCHANGED <<made, status>> /\ outcome = "running" /\ Waiting
        /\ \/ outcome' = "running" /\ ~Waiting' /\ Pos' = Pos
           \/ outcome' = "failure"
    BY <1>1, <1>11, TransferMoves DEF Wait
  <2>2. 1 < Pos /\ Pos \in Nat /\ Script[Pos - 1] \in TransferSteps
    BY <1>1, <2>1 DEF TodoInv
  <2>3. Pos \in DOMAIN Script => Script[Pos] \notin {"transfer", "folder", "remote"}
    BY <1>3, <2>2 DEF TransferSteps
  <2> QED BY <1>1, <1>2, <2>1, <2>3 DEF Carries
<1>12. CASE Fails \/ Success \/ Killed
  <2>1. outcome' # "running" /\ UNCHANGED <<made, status>>
    BY <1>12 DEF Fails, Success, Killed, Ends, jobs
  <2> QED BY <1>2, <2>1 DEF Carries
<1>13. CASE Advance
  <2>1. Stays /\ UNCHANGED <<job, files, made>>
    BY <1>1, <1>13, TransferMoves DEF Advance, local
  <2>2. PICK d \in Deliveries : Jobs!Advance(d)
    BY <1>13 DEF Advance
  <2>3. \A c \in Deliveries : status'[c] # "absent" => status[c] # "absent"
    BY <1>1, <2>2 DEF Jobs!Advance, PackageTypes
  <2> QED BY <1>1, <1>2, <2>1, <2>3 DEF Stays, Carries
<1>14. CASE DaemonDies \/ UNCHANGED vars
  <2>1. Stays /\ UNCHANGED <<job, files, made, status>>
    BY <1>1, <1>14, TransferMoves DEF DaemonDies, vars, local, jobs, Jobs!Lose
  <2> QED BY <1>1, <1>2, <2>1 DEF Stays, Carries
<1>15. CASE Rerun
  <2>1. Begins /\ UNCHANGED <<made, status>>
    BY <1>1, <1>15, EndMoves DEF Rerun, jobs
  <2>2. 1 \in DOMAIN Script => Script[1] \notin {"transfer", "folder", "remote"}
    BY <1>3
  <2> QED BY <1>1, <1>2, <2>1, <2>2 DEF Begins, Carries
<1> QED BY <1>5, <1>6, <1>7, <1>8, <1>9, <1>10, <1>11, <1>12, <1>13, <1>14, <1>15
        DEF Next, Program


-----------------------------------------------------------------------------
(* A program that only takes a complete transfer for its success.          *)

(* When the recipient has been told, as far as the program does that.      *)
ToldAt == Creation[example] + (IF example \in Later THEN 2 ELSE 0)

(* Where the steps of such a program are in its list.                      *)
LEMMA VerifiedPlaces ==
    ASSUME CoreInv, example \in Verified
    PROVE  /\ example \notin Twofold /\ example \notin CSharp
           /\ ToldAt \in Nat /\ ToldAt <= Len(Script) /\ Script[ToldAt] \notin TransferSteps
           /\ IF example \in Later THEN Script[ToldAt] = "announce"
              ELSE Script[ToldAt] \in CreateSteps
           /\ \E f \in DOMAIN Script : AddsSources(example, f)
           /\ Len(Script) \in DOMAIN Script /\ Script[Len(Script)] \in TransferSteps
           /\ Creation[example] < Len(Script)
<1>1. example \notin Twofold /\ example \notin CSharp
  BY DEF Verified, Rust, JavaScript, Twofold, CSharp
<1>2. /\ CreatesOnce(example, Creation[example]) /\ InOrder(example, Creation[example])
      /\ Script \in Seq(StepNames) /\ \E f \in DOMAIN Script : AddsSources(example, f)
      /\ example \in Later => AnnouncesLater(example, Creation[example])
  BY <1>1, ScriptKnown DEF CoreInv
<1>3. /\ Creation[example] \in DOMAIN Script /\ Script[Creation[example]] \in CreateSteps
      /\ Len(Script) \in DOMAIN Script /\ Script[Len(Script)] \in TransferSteps
  BY <1>2 DEF InOrder, CreatesOnce, Script
<1>4. Creation[example] < Len(Script)
  BY <1>2, <1>3 DEF InOrder, Script
<1>5. CASE example \in Later
  <2>1. ToldAt = Creation[example] + 2 /\ ToldAt \in DOMAIN Script /\ Script[ToldAt] = "announce"
    BY <1>2, <1>5 DEF AnnouncesLater, ToldAt, Script
  <2> QED BY <1>1, <1>2, <1>3, <1>4, <1>5, <2>1 DEF TransferSteps
<1>6. CASE example \notin Later
  <2>1. ToldAt = Creation[example]
    BY <1>3, <1>6 DEF ToldAt
  <2> QED BY <1>1, <1>2, <1>3, <1>4, <1>6, <2>1 DEF TransferSteps, CreateSteps
<1> QED BY <1>5, <1>6

(* So it ends with a complete transfer of its files, announced before.     *)
LEMMA VerifiedStep ==
    ASSUME CoreInv, MissingInv, ExpectedInv, RunInv, VerifiedInv, [Next]_vars
    PROVE  VerifiedInv'
<1>1. /\ UNCHANGED world /\ example' = example /\ Script' = Script /\ ToldAt' = ToldAt
      /\ PackageTypes /\ TodoInv /\ Script \in Seq(StepNames) /\ Len(Script) \in Nat
  BY WorldStays, ScriptKnown DEF world, CoreInv, Script, ToldAt, Later
<1> DEFINE Listed == (\E q \in DOMAIN Script : Script[q] = "sources" /\ q < Pos) => files = 1
<1> DEFINE Sent == ToldAt < Pos => made[job].sent
<1> DEFINE Brought == Len(Script) < Pos => made[job].files = 1
<1> DEFINE Finished == Len(Script) < Pos /\ ~Waiting => status[job] = "completed"
<1> DEFINE Delivered == outcome = "success" => \A d \in mine : Delivers(d)
<1> DEFINE Good == Listed /\ Sent /\ Brought /\ Finished
<1> SUFFICES ASSUME example \in Verified
             PROVE  (outcome' = "running" => Good') /\ Delivered'
  BY <1>1 DEF VerifiedInv, Verified, Rust, JavaScript, ToldAt
<1>2. (outcome = "running" => Good) /\ Delivered
  BY DEF VerifiedInv, ToldAt
<1>3. /\ example \notin Twofold /\ example \notin CSharp
      /\ ToldAt \in Nat /\ ToldAt <= Len(Script) /\ Script[ToldAt] \notin TransferSteps
      /\ IF example \in Later THEN Script[ToldAt] = "announce"
         ELSE Script[ToldAt] \in CreateSteps
      /\ Len(Script) \in DOMAIN Script /\ Script[Len(Script)] \in TransferSteps
      /\ Creation[example] < Len(Script) /\ Creation[example] \in Nat
  BY VerifiedPlaces, OncePlaces
<1>4. PICK f \in DOMAIN Script : AddsSources(example, f)
  BY VerifiedPlaces
<1>5. /\ f \in Nat /\ 1 < f /\ f < Len(Script)
      /\ \A q \in DOMAIN Script : /\ Script[q] = "sources" <=> q = f
                                  /\ Script[q] = "spec" => q < f
  BY <1>1, <1>4 DEF AddsSources, Script
<1>6. Pos \in Int /\ (outcome = "running" => Pos \in Nat)
  BY <1>1, <1>3, OncePlaces DEF TodoInv
<1>7. ASSUME NEW names, Forward(names)
      PROVE  /\ names \cap TransferSteps = {} => Pos' <= Len(Script)
             /\ "sources" \notin names =>
                   \A q \in DOMAIN Script : Script[q] = "sources" /\ q < Pos' => q < Pos
             /\ names \cap (CreateSteps \cup {"announce"}) = {} /\ ToldAt < Pos' => ToldAt < Pos
  <2>1. /\ outcome = "running" /\ Pos \in DOMAIN Script /\ Script[Pos] \in names /\ Pos' = Pos + 1
        /\ Pos \in Nat /\ Pos <= Len(Script)
    BY <1>1, <1>7 DEF Forward
  <2>2. names \cap TransferSteps = {} => Pos # Len(Script)
    BY <1>3, <2>1
  <2>3. names \cap (CreateSteps \cup {"announce"}) = {} => Pos # ToldAt
    BY <1>3, <2>1
  <2> QED BY <1>1, <1>3, <2>1, <2>2, <2>3
<1>8. CASE Ask \/ GetTransferSpec \/ Workspace \/ SharedInbox \/ Contact \/ AddSources
  <2>1. PICK names : /\ Forward(names) /\ names \cap TransferSteps = {}
                     /\ names \cap (CreateSteps \cup {"announce"}) = {}
                     /\ ~AddSources => "sources" \notin names
                     /\ GetTransferSpec => Forward({"spec"})
    BY <1>1, <1>8, StepMoves DEF Asked, CreateSteps, TransferSteps
  <2>2. UNCHANGED <<job, made>>
    BY <1>8 DEF Ask, GetTransferSpec, Workspace, SharedInbox, Contact, AddSources, GoOn, local
  <2>3. Listed'
    <3>1. CASE AddSources
      BY <1>3, <3>1, FilesThere DEF Unlisted, Verified, Rust, JavaScript, Java
    <3>2. CASE ~AddSources /\ ~GetTransferSpec
      <4>1. files' = files
        BY <1>8, <3>2 DEF Ask, Workspace, SharedInbox, Contact, local
      <4> QED BY <1>1, <1>2, <1>7, <2>1, <3>2, <4>1 DEF Forward
    <3>3. CASE GetTransferSpec
      <4>1. Pos < f /\ Pos' = Pos + 1 /\ Pos \in Nat
        BY <1>1, <1>5, <2>1, <3>3 DEF Forward
      <4> QED BY <1>1, <1>5, <4>1
    <3> QED BY <3>1, <3>2, <3>3
  <2>4. outcome = "running" /\ outcome' = "running" /\ Pos' <= Len(Script) /\ Pos' \in Nat
    BY <1>1, <1>7, <2>1 DEF Forward
  <2>5. Sent'
    BY <1>1, <1>2, <1>7, <2>1, <2>2, <2>4
  <2> QED BY <1>1, <2>3, <2>4, <2>5
<1>9. CASE Create
  <2>1. PICK d \in Deliveries : job' = d /\ Made(d) /\ files' = files
    BY <1>9 DEF Create
  <2>2. Forward(CreateSteps)
    BY <1>1, <1>9, StepMoves
  <2>3. /\ outcome = "running" /\ outcome' = "running" /\ Pos' <= Len(Script) /\ Pos' \in Nat
        /\ Pos = Creation[example] /\ Pos' = Pos + 1
    BY <1>1, <1>3, <1>7, <2>2, OncePlaces DEF Forward, CreateSteps, TransferSteps
  <2>4. Listed'
    BY <1>1, <1>2, <1>7, <2>1, <2>2, <2>3 DEF CreateSteps
  <2>5. Sent'
    <3>1. CASE example \in Later
      <4>1. ToldAt = Pos + 2
        BY <1>3, <2>3, <3>1 DEF ToldAt
      <4> QED BY <1>1, <1>3, <1>6, <2>3, <4>1
    <3>2. CASE example \notin Later
      <4>1. AnnouncedAtOnce
        BY <1>3, <3>2 DEF AnnouncedAtOnce, Later, CSharp
      <4> QED BY <1>1, <2>1, <4>1, MadeEffect
    <3> QED BY <3>1, <3>2
  <2> QED BY <1>1, <2>3, <2>4, <2>5
<1>10. CASE Announce
  <2>1. Forward({"announce"}) \/ outcome' = "failure"
    BY <1>1, <1>10, EndMoves DEF Stops
  <2>2. ASSUME Forward({"announce"}) PROVE Good' /\ outcome' = "running"
    <3>1. {"announce"} \cap TransferSteps = {} /\ UNCHANGED <<job, files>>
      BY <1>10 DEF TransferSteps, Announce, local
    <3>2. outcome = "running" /\ outcome' = "running" /\ Pos' <= Len(Script) /\ Pos' \in Nat
      <4>1. Pos' <= Len(Script)
        BY <1>7, <2>2, <3>1
      <4> QED BY <1>1, <2>2, <4>1 DEF Forward
    <3>3. made'[job].sent
      BY <1>1, <1>10, JobThere, AnnounceEffect DEF Announce
    <3> QED BY <1>1, <1>2, <1>7, <2>2, <3>1, <3>2, <3>3
  <2> QED BY <2>1, <2>2
<1>11. CASE Transfer
  <2>1. /\ outcome = "running" /\ outcome' = "running" /\ Waiting' /\ Pos' = Pos + 1
        /\ Pos \in DOMAIN Script /\ Pos = Len(Script)
    BY <1>1, <1>3, <1>11, TransferMoves, OncePlaces
  <2>2. /\ UNCHANGED <<job, files>>
        /\ made'[job].files = files /\ made'[job].sent = made[job].sent
    BY <1>1, <1>11, JobThere, TransferEffect DEF Transfer, local
  <2>3. files = 1
    BY <1>2, <1>5, <2>1
  <2>4. ToldAt < Pos
    BY <1>3, <2>1
  <2> QED BY <1>1, <1>2, <2>1, <2>2, <2>3, <2>4
<1>12. CASE Wait
  <2>1. /\ outcome = "running"
        /\ \/ outcome' = "running" /\ ~Waiting' /\ Pos' = Pos
           \/ outcome' = "failure"
    BY <1>1, <1>12, TransferMoves
  <2>2. example # "go_faspex5" /\ Satisfied = {"completed"}
    BY DEF Satisfied, Verified, Rust, JavaScript
  <2>3. UNCHANGED <<job, files, made, status>> /\ At("wait")
    BY <1>12 DEF Wait, local
  <2>4. outcome' = "running" => status[job] = "completed"
    BY <1>12, <2>1, <2>2 DEF Wait, Ends
  <2> QED BY <1>1, <1>2, <2>1, <2>3, <2>4
<1>13. CASE Success
  <2>1. /\ outcome = "running" /\ outcome' = "success" /\ ~Waiting /\ Pos = Len(Script) + 1
        /\ UNCHANGED <<mine, made, status>>
    BY <1>1, <1>13, EndMoves DEF Success
  <2>2. job \in Deliveries /\ made[job] # None /\ mine \subseteq {job}
    BY <1>1, <1>3, <2>1, JobThere DEF RunInv
  <2>3. made[job].expected = 1
    BY <1>3, <2>2 DEF ExpectedInv
  <2>4. made[job].sent /\ made[job].files = 1 /\ status[job] = "completed"
    BY <1>1, <1>2, <1>3, <2>1
  <2> QED BY <2>1, <2>2, <2>4 DEF Delivers, Filled, Announced
<1>14. CASE Advance
  <2>1. PICK d \in Deliveries : Jobs!Advance(d)
    BY <1>14 DEF Advance
  <2>2. \A c \in Deliveries : status[c] = "completed" => status'[c] = "completed"
    BY <1>1, <2>1 DEF Jobs!Advance, PackageTypes
  <2>3. Stays /\ UNCHANGED <<job, files, mine, made>>
    BY <1>1, <1>14, TransferMoves DEF Advance, local
  <2>4. outcome = "running" /\ Len(Script) < Pos => job \in Deliveries
    BY <1>1, <1>3, <1>6, JobThere
  <2>5. mine \subseteq Deliveries
    BY <1>1 DEF PackageTypes
  <2> QED BY <1>1, <1>2, <2>2, <2>3, <2>4, <2>5 DEF Stays, Delivers, Filled, Announced
<1>15. CASE DaemonDies \/ UNCHANGED vars
  <2>1. Stays /\ UNCHANGED <<job, files, mine, made, status>>
    BY <1>1, <1>15, TransferMoves DEF DaemonDies, vars, local, jobs, Jobs!Lose
  <2> QED BY <1>1, <1>2, <2>1 DEF Stays, Delivers, Filled, Announced
<1>16. CASE Fails \/ CreateLost \/ Killed
  <2>1. outcome' \in {"failure", "killed"}
    BY <1>16 DEF Fails, CreateLost, Killed, Ends
  <2> QED BY <2>1
<1>17. CASE Rerun
  <2>1. Begins /\ job' = None
    BY <1>1, <1>17, EndMoves DEF Rerun
  <2>2. ToldAt \in DOMAIN Script \/ ToldAt >= 1
    BY <1>3, ScriptKnown DEF ToldAt, CoreInv, InOrder, Script
  <2> QED BY <1>1, <1>3, <1>5, <2>1, <2>2 DEF Begins
<1>18. CASE NotStarted
  BY <1>18 DEF NotStarted, Unheeded, Verified, Rust, JavaScript
<1> QED BY <1>8, <1>9, <1>10, <1>11, <1>12, <1>13, <1>14, <1>15, <1>16, <1>17, <1>18
        DEF Next, Program


-----------------------------------------------------------------------------
(* The theorems.                                                           *)

PackageInv ==
    CoreInv /\ MissingInv /\ ExpectedInv /\ FoundInv /\ RunInv /\ FilledInv /\ VerifiedInv

(* A program begins at the head of its list, with nothing made.            *)
LEMMA AtTheStart == ASSUME Init PROVE PackageInv
<1>1. PackageTypes
  BY DEF Init, PackageTypes, Needed, Does, Jobs!Init
<1>2. /\ Script \in Seq(StepNames) /\ Len(Script) \in Nat /\ "wait" \notin StepNames
      /\ InOrder(example, Creation[example])
  BY <1>1, ScriptKnown DEF StepNames, Early, CreateSteps, TransferSteps
<1>3. /\ todo = Script /\ outcome = "running" /\ unlucky = FALSE /\ mine = {}
      /\ job = None /\ ws = None /\ box = None /\ files = 0
      /\ \A d \in Deliveries : made[d] = None /\ status[d] = "absent"
  BY DEF Init, Script, Jobs!Init
<1>4. ~Waiting
  BY <1>2, <1>3 DEF Waiting
<1>5. Pos = 1 /\ Extra = 0
  BY <1>2, <1>3, <1>4 DEF Pos, Extra
<1>6. TodoInv
  BY <1>2, <1>3, <1>4, <1>5 DEF TodoInv
<1>7. Creation[example] \in Nat /\ 1 <= Creation[example]
  BY <1>2 DEF InOrder, Script
<1>8. CoreInv
  BY <1>1, <1>3, <1>5, <1>6, <1>7 DEF CoreInv, DeliveryInv
<1>9. MissingInv /\ ExpectedInv /\ FoundInv
  BY <1>2, <1>3, <1>5 DEF MissingInv, ExpectedInv, FoundInv
<1>10. RunInv
  BY <1>3, <1>4 DEF RunInv, Hopeless
<1>11. VerifiedInv
  <2> SUFFICES ASSUME example \in Verified
               PROVE  /\ ~\E q \in DOMAIN Script : q < Pos
                      /\ ~(Len(Script) < Pos) /\ ~(ToldAt < Pos)
    BY <1>3 DEF VerifiedInv, ToldAt
  <2>1. ToldAt \in Nat /\ 1 <= ToldAt /\ 1 < Len(Script)
    BY <1>2, <1>7, <1>8, VerifiedPlaces DEF ToldAt
  <2> QED BY <1>2, <1>5, <2>1
<1>12. FilledInv
  <2>1. Prepares(example) /\ Script = Steps[example]
    BY <1>1, ScriptKnown DEF Script
  <2>2. 1 \in DOMAIN Script => Script[1] \notin {"transfer", "folder", "remote"}
    BY <1>2, <2>1 DEF Prepares
  <2> QED BY <1>3, <1>5, <2>2 DEF FilledInv
<1> QED BY <1>8, <1>9, <1>10, <1>11, <1>12 DEF PackageInv

(* The programs keep the invariant, however many deliveries there are and  *)
(* however often they are run.                                             *)
THEOREM PackagesInvariant == Spec => []PackageInv
<1>1. Init => PackageInv
  BY AtTheStart
<1>2. PackageInv /\ [Next]_vars => PackageInv'
  BY TypesStep, TodoStep, DeliveryStep, MissingStep, ExpectedStep, FoundStep, RunStep,
     FilledStep, VerifiedStep DEF PackageInv, CoreInv
<1> QED BY <1>1, <1>2, PTL DEF Spec

(* A package whose recipient is told of it has its files, but for C# and   *)
(* for a list of no files in Java; and a program that lacks a setting      *)
(* leaves no package behind, except those that notice it late.             *)
THEOREM NoPackageIsEmpty == Spec => []NoEmptyPackages
<1>1. PackageInv => NoEmptyPackages
  <2> SUFFICES ASSUME PackageInv, NEW d \in Deliveries, made[d] # None
               PROVE  /\ Announced(d) => \/ Filled(d) \/ example \in CSharp
                                         \/ example \in Java /\ missing = "files"
                      /\ missing \in Needed => <<example, missing>> \in Careless
    BY DEF NoEmptyPackages
  <2>1. ASSUME Announced(d), example \notin CSharp, ~(example \in Java /\ missing = "files")
        PROVE  Filled(d)
    <3>1. made[d].expected = 1
      BY <2>1 DEF PackageInv, ExpectedInv
    <3>2. status[d] = "completed"
      BY <2>1, <3>1 DEF Announced
    <3>3. Carries(d)
      BY <2>1, <3>2 DEF PackageInv, FilledInv, Unlisted
    <3> QED BY <3>2, <3>3 DEF Filled, Carries
  <2>2. missing \in Needed => <<example, missing>> \in Careless
    BY DEF PackageInv, MissingInv
  <2> QED BY <2>1, <2>2
<1> QED BY <1>1, PackagesInvariant, PTL

(* A program with one transfer that is run until it succeeds brings its    *)
(* files once, after any number of failures.                               *)
THEOREM OneDelivery == Spec => []DeliveredOnce
<1>1. PackageInv => DeliveredOnce
  <2> SUFFICES ASSUME PackageInv, example \notin Twofold, ~unlucky
               PROVE  Cardinality({d \in Deliveries :
                                      made[d] # None /\ status[d] = "completed"}) <= 1
    BY DEF DeliveredOnce, Twofold
  <2> DEFINE Brought == {d \in Deliveries : made[d] # None /\ status[d] = "completed"}
  <2>1. \A d \in Deliveries : d \notin mine \/ outcome = "failure" => Hopeless(d)
    BY DEF PackageInv, RunInv
  <2>2. Brought \subseteq mine /\ (outcome = "failure" => Brought = {})
    BY <2>1 DEF Hopeless
  <2>3. outcome \in {"running", "success"} => mine \subseteq {job}
    BY DEF PackageInv, RunInv
  <2>4. outcome \in {"running", "success", "failure"}
    BY DEF PackageInv, RunInv, CoreInv, PackageTypes
  <2>5. Brought \subseteq {job}
    BY <2>2, <2>3, <2>4
  <2>6. IsFiniteSet({job}) /\ Cardinality({job}) = 1
    BY FS_Singleton
  <2> QED BY <2>5, <2>6, FS_Subset
<1> QED BY <1>1, PackagesInvariant, PTL

(* A program of Rust or JavaScript, or cpp_aoc, that ends well has brought *)
(* each file once and the recipient is told; and, but for rust_aoc and     *)
(* csharp_aoc, what a program that ends well has made is in the only place *)
(* that its search has found.                                              *)
THEOREM ASuccessDelivers == Spec => []SuccessDelivers
<1>1. PackageInv => SuccessDelivers
  <2> SUFFICES ASSUME PackageInv, outcome = "success", NEW d \in mine
               PROVE  /\ example \in Verified => Delivers(d)
                      /\ example \notin {"rust_aoc", "csharp_aoc"} => RightPlace(d)
    BY DEF SuccessDelivers, Verified
  <2>1. d \in Deliveries /\ made[d] # None
    BY DEF PackageInv, CoreInv, PackageTypes, DeliveryInv
  <2>2. example \in Verified => Delivers(d)
    BY DEF PackageInv, VerifiedInv
  <2>3. example \notin {"rust_aoc", "csharp_aoc"} => RightPlace(d)
    BY <2>1 DEF PackageInv, FoundInv
  <2> QED BY <2>2, <2>3
<1> QED BY <1>1, PackagesInvariant, PTL
=============================================================================
