----------------------- MODULE CameraSingleton_proofs -----------------------
(***************************************************************************)
(* OneCamera of CameraSingleton, for every number of clients and objects,  *)
(* as long as nothing but /dev/oncrpc is missing when the camera starts.   *)
(*                                                                         *)
(* What createInstance() relies on, and no line of the code says, is that  *)
(* an object nobody holds any more has marked singleton_releasing: whoever *)
(* drops the last pointer has either called release() itself or has found  *)
(* the object released by somebody who holds it until it is marked.  So    *)
(* the destructor, which clears the singleton whatever it points to, only  *)
(* ever clears it of its own object.                                       *)
(***************************************************************************)
EXTENDS CameraSingleton, TLAPS

\* The object exists: between its constructor and its destructor.
Live(o) == stage[o] \in {"new", "started", "released"}

\* The client is in startCamera().
Starting(c) == pc[c] \in {"dlopen", "join", "conf"}

\* The client has released its object, or found it released.
Ending(c) == pc[c] \in {"mark", "drop"}

\* An object that exists is the singleton; it is held until it is released, and
\* singleton_releasing is set from then on, or about to be by a holder.
ObjectOK(o) ==
  /\ stage[o] = "none" <=> o > made
  /\ Live(o) => singleton = o
  /\ refs[o] # {} => Live(o)
  /\ stage[o] \in {"new", "started"} => refs[o] # {}
  /\ stage[o] = "released" =>
       singleton_releasing \/ \E c \in Clients : pc[c] = "mark" /\ hardware[c] = o
  /\ stage[o] = "new" => \E c \in Clients : Starting(c) /\ hardware[c] = o

\* The open thread of an object runs only while the object starts, so that
\* nobody else writes camerafd before it is read.
OpenerOK(o) ==
  /\ opener[o] = "none" <=> o > made
  /\ opener[o] = "running" => stage[o] = "new"
  /\ opener[o] = "done" /\ stage[o] = "new" => camerafd = o
  /\ stage[o] = "started" => mCameraControlFd[o] = o

\* Where a client is says what it holds.
ClientOK(c) ==
  LET o == hardware[c] IN
  /\ pc[c] = "check" \/ Starting(c) => singleton_lock = c
  /\ Starting(c) => o \in Objects /\ stage[o] = "new" /\ c \in refs[o]
  /\ pc[c] = "conf" => mCameraControlFd[o] = o /\ opener[o] = "done"
  /\ pc[c] = "has" => o \in Objects /\ stage[o] \in {"started", "released"} /\ c \in refs[o]
  /\ Ending(c) => o \in Objects /\ stage[o] = "released" /\ c \in refs[o]
  /\ pc[c] = "destroy" => o \in Objects /\ stage[o] = "released" /\ refs[o] = {}

\* The same of the thread that an object has created.
WorkerOK(o) ==
  LET p == served[o] IN
  /\ worker[o] = "running" => p \in Objects /\ WorkerOf(o) \in refs[p]
  /\ worker[o] = "destroys" => p \in Objects /\ stage[p] = "released" /\ refs[p] = {}

\* One thread at most runs the destructor.
OneDestroyer ==
  /\ \A c, d \in Clients : pc[c] = "destroy" /\ pc[d] = "destroy" => c = d
  /\ \A o, p \in Objects : worker[o] = "destroys" /\ worker[p] = "destroys" => o = p
  /\ \A c \in Clients, o \in Objects : ~(pc[c] = "destroy" /\ worker[o] = "destroys")

Inv ==
  /\ TypeOK
  /\ \A o \in Objects : ObjectOK(o)
  /\ \A o \in Objects : OpenerOK(o)
  /\ \A c \in Clients : ClientOK(c)
  /\ \A o \in Objects : WorkerOK(o)
  /\ singleton # 0 => Live(singleton)
  /\ OneDestroyer
  /\ singleton_releasing => \E o \in Objects : stage[o] = "released"

-----------------------------------------------------------------------------

\* A client takes singleton_lock.
LEMMA EnterStep ==
  ASSUME Inv, NEW a \in Clients, Enter(a)
  PROVE  Inv'
<1> USE Assumptions DEF Objects
<1>0. /\ TypeOK /\ OneDestroyer
      /\ \A o \in Objects : ObjectOK(o) /\ OpenerOK(o) /\ WorkerOK(o)
      /\ \A c \in Clients : ClientOK(c)
      /\ singleton # 0 => Live(singleton)
      /\ singleton_releasing => \E o \in Objects : stage[o] = "released"
  BY DEF Inv
<1>a. /\ pc[a] \in {"idle", "waiting"} /\ singleton_lock = "free" /\ singleton_lock' = a
      /\ pc' = [pc EXCEPT ![a] = "check"]
      /\ UNCHANGED <<singleton, singleton_releasing, made, refs, stage,
                     mCameraControlFd, camerafd, opener, worker, served, hardware>>
  BY DEF Enter, Goto, global, device, workers
<1>1. TypeOK'
  BY <1>0, <1>a DEF TypeOK, Holders
<1>2. ASSUME NEW o \in Objects PROVE ObjectOK(o)'
  <2>1. \A c \in Clients : /\ pc[c] = "mark" => pc'[c] = "mark"
                           /\ Starting(c) => Starting(c)'
    BY <1>0, <1>a DEF TypeOK, Starting
  <2> QED
    BY <1>0, <1>a, <2>1 DEF ObjectOK, Live
<1>3. ASSUME NEW o \in Objects PROVE OpenerOK(o)'
  BY <1>0, <1>a DEF TypeOK, ObjectOK, OpenerOK, ClientOK, Live, Starting
<1>4. ASSUME NEW c \in Clients PROVE ClientOK(c)'
  BY <1>0, <1>a DEF TypeOK, ObjectOK, OpenerOK, ClientOK, Live, Starting, Ending,
     OneDestroyer
<1>5. ASSUME NEW o \in Objects PROVE WorkerOK(o)'
  BY <1>0, <1>a DEF TypeOK, WorkerOK
<1>6. singleton' # 0 => Live(singleton)'
  BY <1>0, <1>a DEF TypeOK, ObjectOK, ClientOK, WorkerOK, Live
<1>7. OneDestroyer'
  BY <1>0, <1>a DEF TypeOK, OneDestroyer
<1>8. singleton_releasing' => \E o \in Objects : stage'[o] = "released"
  BY <1>0, <1>a DEF TypeOK
<1> QED
  BY <1>1, <1>2, <1>3, <1>4, <1>5, <1>6, <1>7, <1>8 DEF Inv

\* It waits for the destructor, or gives up.
LEMMA WaitReleaseStep ==
  ASSUME Inv, NEW a \in Clients, WaitRelease(a)
  PROVE  Inv'
<1> USE Assumptions DEF Objects
<1>0. /\ TypeOK /\ OneDestroyer
      /\ \A o \in Objects : ObjectOK(o) /\ OpenerOK(o) /\ WorkerOK(o)
      /\ \A c \in Clients : ClientOK(c)
      /\ singleton # 0 => Live(singleton)
      /\ singleton_releasing => \E o \in Objects : stage[o] = "released"
  BY DEF Inv
<1>a. /\ pc[a] = "check" /\ singleton_lock' = "free"
      /\ \E l \in {"waiting", "idle"} : pc' = [pc EXCEPT ![a] = l]
      /\ UNCHANGED <<singleton, singleton_releasing, made, refs, stage,
                     mCameraControlFd, camerafd, opener, worker, served, hardware>>
  BY DEF WaitRelease, Goto, global, device, workers
<1>1. TypeOK'
  BY <1>0, <1>a DEF TypeOK, Holders
<1>2. ASSUME NEW o \in Objects PROVE ObjectOK(o)'
  <2>1. \A c \in Clients : /\ pc[c] = "mark" => pc'[c] = "mark"
                           /\ Starting(c) => Starting(c)'
    BY <1>0, <1>a DEF TypeOK, Starting
  <2> QED
    BY <1>0, <1>a, <2>1 DEF ObjectOK, Live
<1>3. ASSUME NEW o \in Objects PROVE OpenerOK(o)'
  BY <1>0, <1>a DEF TypeOK, ObjectOK, OpenerOK, ClientOK, Live, Starting
<1>4. ASSUME NEW c \in Clients PROVE ClientOK(c)'
  BY <1>0, <1>a DEF TypeOK, ObjectOK, OpenerOK, ClientOK, Live, Starting, Ending,
     OneDestroyer
<1>5. ASSUME NEW o \in Objects PROVE WorkerOK(o)'
  BY <1>0, <1>a DEF TypeOK, WorkerOK
<1>6. singleton' # 0 => Live(singleton)'
  BY <1>0, <1>a DEF TypeOK, ObjectOK, ClientOK, WorkerOK, Live
<1>7. OneDestroyer'
  BY <1>0, <1>a DEF TypeOK, OneDestroyer
<1>8. singleton_releasing' => \E o \in Objects : stage'[o] = "released"
  BY <1>0, <1>a DEF TypeOK
<1> QED
  BY <1>1, <1>2, <1>3, <1>4, <1>5, <1>6, <1>7, <1>8 DEF Inv

\* The object that it returns is in use, or released and not marked yet.
LEMMA ReturnExistingStep ==
  ASSUME Inv, NEW a \in Clients, ReturnExisting(a)
  PROVE  Inv'
<1> USE Assumptions DEF Objects
<1>0. /\ TypeOK /\ OneDestroyer
      /\ \A o \in Objects : ObjectOK(o) /\ OpenerOK(o) /\ WorkerOK(o)
      /\ \A c \in Clients : ClientOK(c)
      /\ singleton # 0 => Live(singleton)
      /\ singleton_releasing => \E o \in Objects : stage[o] = "released"
  BY DEF Inv
<1>a. /\ pc[a] = "check" /\ singleton \in Objects /\ refs[singleton] # {}
      /\ stage[singleton] \in {"started", "released"}
      /\ refs' = [refs EXCEPT ![singleton] = refs[singleton] \union {a}]
      /\ hardware' = [hardware EXCEPT ![a] = singleton]
      /\ singleton_lock' = "free" /\ pc' = [pc EXCEPT ![a] = "has"]
      /\ UNCHANGED <<singleton, singleton_releasing, made, stage, mCameraControlFd,
                     camerafd, opener, worker, served>>
  <2>1. pc[a] = "check" /\ singleton \in Objects /\ refs[singleton] # {}
    BY <1>0 DEF ReturnExisting, Promotes, TypeOK
  <2>2. ASSUME stage[singleton] = "new" PROVE FALSE
    <3>1. PICK c \in Clients : Starting(c)
      BY <1>0, <2>1, <2>2 DEF ObjectOK
    <3>2. c = a
      BY <1>0, <2>1, <3>1 DEF ClientOK
    <3> QED
      BY <2>1, <3>1, <3>2 DEF Starting
  <2> QED
    BY <1>0, <2>1, <2>2 DEF ReturnExisting, Goto, global, device, workers, ObjectOK,
       Live
<1>1. TypeOK'
  BY <1>0, <1>a DEF TypeOK, Holders
<1>2. ASSUME NEW o \in Objects PROVE ObjectOK(o)'
  BY <1>0, <1>a DEF TypeOK, ObjectOK, ClientOK, WorkerOK, Live, Starting, Ending
<1>3. ASSUME NEW o \in Objects PROVE OpenerOK(o)'
  BY <1>0, <1>a DEF TypeOK, ObjectOK, OpenerOK, ClientOK, Live, Starting
<1>4. ASSUME NEW c \in Clients PROVE ClientOK(c)'
  BY <1>0, <1>a DEF TypeOK, ObjectOK, OpenerOK, ClientOK, Live, Starting, Ending,
     OneDestroyer
<1>5. ASSUME NEW o \in Objects PROVE WorkerOK(o)'
  BY <1>0, <1>a DEF TypeOK, ObjectOK, ClientOK, WorkerOK, Live, WorkerOf, OneDestroyer
<1>6. singleton' # 0 => Live(singleton)'
  BY <1>0, <1>a DEF TypeOK, ObjectOK, ClientOK, WorkerOK, Live
<1>7. OneDestroyer'
  BY <1>0, <1>a DEF TypeOK, OneDestroyer
<1>8. singleton_releasing' => \E o \in Objects : stage'[o] = "released"
  BY <1>0, <1>a DEF TypeOK
<1> QED
  BY <1>1, <1>2, <1>3, <1>4, <1>5, <1>6, <1>7, <1>8 DEF Inv

\* /dev/oncrpc is missing.
LEMMA NoRpcStep ==
  ASSUME Inv, NEW a \in Clients, NoRpc(a)
  PROVE  Inv'
<1> USE Assumptions DEF Objects
<1>0. /\ TypeOK /\ OneDestroyer
      /\ \A o \in Objects : ObjectOK(o) /\ OpenerOK(o) /\ WorkerOK(o)
      /\ \A c \in Clients : ClientOK(c)
      /\ singleton # 0 => Live(singleton)
      /\ singleton_releasing => \E o \in Objects : stage[o] = "released"
  BY DEF Inv
<1>a. /\ pc[a] = "check" /\ singleton_lock' = "free"
      /\ pc' = [pc EXCEPT ![a] = "idle"]
      /\ UNCHANGED <<singleton, singleton_releasing, made, refs, stage,
                     mCameraControlFd, camerafd, opener, worker, served, hardware>>
  BY DEF NoRpc, Goto, global, device, workers
<1>1. TypeOK'
  BY <1>0, <1>a DEF TypeOK, Holders
<1>2. ASSUME NEW o \in Objects PROVE ObjectOK(o)'
  <2>1. \A c \in Clients : /\ pc[c] = "mark" => pc'[c] = "mark"
                           /\ Starting(c) => Starting(c)'
    BY <1>0, <1>a DEF TypeOK, Starting
  <2> QED
    BY <1>0, <1>a, <2>1 DEF ObjectOK, Live
<1>3. ASSUME NEW o \in Objects PROVE OpenerOK(o)'
  BY <1>0, <1>a DEF TypeOK, ObjectOK, OpenerOK, ClientOK, Live, Starting
<1>4. ASSUME NEW c \in Clients PROVE ClientOK(c)'
  BY <1>0, <1>a DEF TypeOK, ObjectOK, OpenerOK, ClientOK, Live, Starting, Ending,
     OneDestroyer
<1>5. ASSUME NEW o \in Objects PROVE WorkerOK(o)'
  BY <1>0, <1>a DEF TypeOK, WorkerOK
<1>6. singleton' # 0 => Live(singleton)'
  BY <1>0, <1>a DEF TypeOK, ObjectOK, ClientOK, WorkerOK, Live
<1>7. OneDestroyer'
  BY <1>0, <1>a DEF TypeOK, OneDestroyer
<1>8. singleton_releasing' => \E o \in Objects : stage'[o] = "released"
  BY <1>0, <1>a DEF TypeOK
<1> QED
  BY <1>1, <1>2, <1>3, <1>4, <1>5, <1>6, <1>7, <1>8 DEF Inv

\* There is no object when one is made: one that nobody holds would have been marked.
LEMMA ConstructStep ==
  ASSUME Inv, NEW a \in Clients, Construct(a)
  PROVE  Inv'
<1> USE Assumptions DEF Objects
<1>0. /\ TypeOK /\ OneDestroyer
      /\ \A o \in Objects : ObjectOK(o) /\ OpenerOK(o) /\ WorkerOK(o)
      /\ \A c \in Clients : ClientOK(c)
      /\ singleton # 0 => Live(singleton)
      /\ singleton_releasing => \E o \in Objects : stage[o] = "released"
  BY DEF Inv
<1>a. /\ pc[a] = "check" /\ made < MaxObjects /\ ~singleton_releasing
      /\ singleton = 0 /\ made' = made + 1 /\ singleton' = made + 1 /\ made + 1 \in Objects
      /\ refs' = [refs EXCEPT ![made + 1] = {a}]
      /\ stage' = [stage EXCEPT ![made + 1] = "new"]
      /\ opener' = [opener EXCEPT ![made + 1] = "running"]
      /\ hardware' = [hardware EXCEPT ![a] = made + 1]
      /\ pc' = [pc EXCEPT ![a] = "dlopen"]
      /\ UNCHANGED <<singleton_releasing, singleton_lock, mCameraControlFd, camerafd,
                     worker, served>>
  <2>1. pc[a] = "check" /\ ~singleton_releasing /\ ~Promotes(singleton) /\ made < MaxObjects
    BY DEF Construct
  <2>2. singleton = 0
    <3> SUFFICES ASSUME singleton # 0 PROVE FALSE
      OBVIOUS
    <3>1. singleton \in Objects /\ refs[singleton] = {} /\ stage[singleton] = "released"
      BY <1>0, <2>1 DEF Promotes, TypeOK, ObjectOK, Live
    <3>2. PICK c \in Clients : pc[c] = "mark" /\ hardware[c] = singleton
      BY <1>0, <2>1, <3>1 DEF ObjectOK
    <3> QED
      BY <1>0, <3>1, <3>2 DEF ClientOK, Ending
  <2> QED
    BY <1>0, <2>1, <2>2 DEF Construct, Goto, workers, TypeOK
<1>1. TypeOK'
  <2>1. /\ refs' \in [Objects -> SUBSET Holders]
        /\ stage' \in [Objects -> {"none", "new", "started", "released", "dead"}]
        /\ opener' \in [Objects -> {"none", "running", "done"}]
    BY <1>0, <1>a DEF TypeOK, Holders
  <2>2. /\ pc' \in [Clients -> {"idle", "waiting", "check", "dlopen", "join", "conf", "has",
                                "mark", "drop", "destroy"}]
        /\ hardware' \in [Clients -> 0..MaxObjects]
        /\ singleton' \in 0..MaxObjects /\ made' \in 0..MaxObjects
    BY <1>0, <1>a DEF TypeOK
  <2> QED
    BY <1>0, <1>a, <2>1, <2>2 DEF TypeOK
<1>2. ASSUME NEW o \in Objects PROVE ObjectOK(o)'
  BY <1>0, <1>a DEF TypeOK, ObjectOK, ClientOK, WorkerOK, Live, Starting, Ending
<1>3. ASSUME NEW o \in Objects PROVE OpenerOK(o)'
  BY <1>0, <1>a DEF TypeOK, ObjectOK, OpenerOK, ClientOK, Live, Starting
<1>4. ASSUME NEW c \in Clients PROVE ClientOK(c)'
  BY <1>0, <1>a DEF TypeOK, ObjectOK, OpenerOK, ClientOK, Live, Starting, Ending,
     OneDestroyer
<1>5. ASSUME NEW o \in Objects PROVE WorkerOK(o)'
  <2>1. refs'[served[o]] = refs[served[o]] \/ worker[o] \notin {"running", "destroys"}
    BY <1>0, <1>a DEF TypeOK, ObjectOK, WorkerOK, Live
  <2> QED
    BY <1>0, <1>a, <2>1 DEF TypeOK, ObjectOK, WorkerOK, Live
<1>6. singleton' # 0 => Live(singleton)'
  BY <1>0, <1>a DEF TypeOK, ObjectOK, ClientOK, WorkerOK, Live
<1>7. OneDestroyer'
  BY <1>0, <1>a DEF TypeOK, OneDestroyer
<1>8. singleton_releasing' => \E o \in Objects : stage'[o] = "released"
  BY <1>0, <1>a DEF TypeOK
<1> QED
  BY <1>1, <1>2, <1>3, <1>4, <1>5, <1>6, <1>7, <1>8 DEF Inv

\* The library is loaded.
LEMMA LoadLibraryStep ==
  ASSUME Inv, NEW a \in Clients, LoadLibrary(a), StartFails \subseteq {"oncrpc"}
  PROVE  Inv'
<1> USE Assumptions DEF Objects
<1>0. /\ TypeOK /\ OneDestroyer
      /\ \A o \in Objects : ObjectOK(o) /\ OpenerOK(o) /\ WorkerOK(o)
      /\ \A c \in Clients : ClientOK(c)
      /\ singleton # 0 => Live(singleton)
      /\ singleton_releasing => \E o \in Objects : stage[o] = "released"
  BY DEF Inv
<1>a. /\ pc[a] = "dlopen" /\ pc' = [pc EXCEPT ![a] = "join"]
      /\ UNCHANGED <<singleton, singleton_releasing, singleton_lock, made, refs, stage,
                     mCameraControlFd, camerafd, opener, worker, served, hardware>>
  BY DEF LoadLibrary, Goto, global, device, workers
<1>1. TypeOK'
  BY <1>0, <1>a DEF TypeOK, Holders
<1>2. ASSUME NEW o \in Objects PROVE ObjectOK(o)'
  BY <1>0, <1>a DEF TypeOK, ObjectOK, ClientOK, WorkerOK, Live, Starting, Ending
<1>3. ASSUME NEW o \in Objects PROVE OpenerOK(o)'
  BY <1>0, <1>a DEF TypeOK, ObjectOK, OpenerOK, ClientOK, Live, Starting
<1>4. ASSUME NEW c \in Clients PROVE ClientOK(c)'
  BY <1>0, <1>a DEF TypeOK, ObjectOK, OpenerOK, ClientOK, Live, Starting, Ending,
     OneDestroyer
<1>5. ASSUME NEW o \in Objects PROVE WorkerOK(o)'
  BY <1>0, <1>a DEF TypeOK, WorkerOK
<1>6. singleton' # 0 => Live(singleton)'
  BY <1>0, <1>a DEF TypeOK, ObjectOK, ClientOK, WorkerOK, Live
<1>7. OneDestroyer'
  BY <1>0, <1>a DEF TypeOK, OneDestroyer
<1>8. singleton_releasing' => \E o \in Objects : stage'[o] = "released"
  BY <1>0, <1>a DEF TypeOK
<1> QED
  BY <1>1, <1>2, <1>3, <1>4, <1>5, <1>6, <1>7, <1>8 DEF Inv

\* The open thread has ended; camerafd is what it has opened.
LEMMA JoinStep ==
  ASSUME Inv, NEW a \in Clients, Join(a)
  PROVE  Inv'
<1> USE Assumptions DEF Objects
<1>0. /\ TypeOK /\ OneDestroyer
      /\ \A o \in Objects : ObjectOK(o) /\ OpenerOK(o) /\ WorkerOK(o)
      /\ \A c \in Clients : ClientOK(c)
      /\ singleton # 0 => Live(singleton)
      /\ singleton_releasing => \E o \in Objects : stage[o] = "released"
  BY DEF Inv
<1>a. /\ pc[a] = "join" /\ hardware[a] \in Objects /\ camerafd = hardware[a]
      /\ opener[hardware[a]] = "done"
      /\ stage[hardware[a]] = "new"
      /\ mCameraControlFd' = [mCameraControlFd EXCEPT ![hardware[a]] = camerafd]
      /\ pc' = [pc EXCEPT ![a] = "conf"]
      /\ UNCHANGED <<singleton, singleton_releasing, singleton_lock, made, refs, stage,
                     camerafd, opener, worker, served, hardware>>
  BY <1>0 DEF Join, Goto, global, workers, ClientOK, OpenerOK, Starting
<1>1. TypeOK'
  BY <1>0, <1>a DEF TypeOK, Holders
<1>2. ASSUME NEW o \in Objects PROVE ObjectOK(o)'
  BY <1>0, <1>a DEF TypeOK, ObjectOK, ClientOK, WorkerOK, Live, Starting, Ending
<1>3. ASSUME NEW o \in Objects PROVE OpenerOK(o)'
  BY <1>0, <1>a DEF TypeOK, ObjectOK, OpenerOK, ClientOK, Live, Starting
<1>4. ASSUME NEW c \in Clients PROVE ClientOK(c)'
  BY <1>0, <1>a DEF TypeOK, ObjectOK, OpenerOK, ClientOK, Live, Starting, Ending,
     OneDestroyer
<1>5. ASSUME NEW o \in Objects PROVE WorkerOK(o)'
  BY <1>0, <1>a DEF TypeOK, WorkerOK
<1>6. singleton' # 0 => Live(singleton)'
  BY <1>0, <1>a DEF TypeOK, ObjectOK, ClientOK, WorkerOK, Live
<1>7. OneDestroyer'
  BY <1>0, <1>a DEF TypeOK, OneDestroyer
<1>8. singleton_releasing' => \E o \in Objects : stage'[o] = "released"
  BY <1>0, <1>a DEF TypeOK
<1> QED
  BY <1>1, <1>2, <1>3, <1>4, <1>5, <1>6, <1>7, <1>8 DEF Inv

\* The camera has started.
LEMMA StartedStep ==
  ASSUME Inv, NEW a \in Clients, Started(a), StartFails \subseteq {"oncrpc"}
  PROVE  Inv'
<1> USE Assumptions DEF Objects
<1>0. /\ TypeOK /\ OneDestroyer
      /\ \A o \in Objects : ObjectOK(o) /\ OpenerOK(o) /\ WorkerOK(o)
      /\ \A c \in Clients : ClientOK(c)
      /\ singleton # 0 => Live(singleton)
      /\ singleton_releasing => \E o \in Objects : stage[o] = "released"
  BY DEF Inv
<1>a. /\ pc[a] = "conf" /\ hardware[a] \in Objects /\ stage[hardware[a]] = "new"
      /\ mCameraControlFd[hardware[a]] = hardware[a] /\ opener[hardware[a]] = "done"
      /\ singleton_lock' = "free"
      /\ stage' = [stage EXCEPT ![hardware[a]] = "started"]
      /\ pc' = [pc EXCEPT ![a] = "has"]
      /\ UNCHANGED <<singleton, singleton_releasing, made, refs, mCameraControlFd,
                     camerafd, opener, worker, served, hardware>>
  <2>1. /\ pc[a] = "conf" /\ hardware[a] \in Objects /\ stage[hardware[a]] = "new"
        /\ mCameraControlFd[hardware[a]] = hardware[a] /\ opener[hardware[a]] = "done"
    BY <1>0 DEF Started, ClientOK, Starting
  <2>2. ~(mCameraControlFd[hardware[a]] < 0) /\ StartFails \intersect {"fb", "conf"} = {}
    BY <2>1
  <2> QED
    BY <2>1, <2>2 DEF Started, Goto, global, device, workers
<1>1. TypeOK'
  BY <1>0, <1>a DEF TypeOK, Holders
<1>2. ASSUME NEW o \in Objects PROVE ObjectOK(o)'
  BY <1>0, <1>a DEF TypeOK, ObjectOK, ClientOK, WorkerOK, Live, Starting, Ending
<1>3. ASSUME NEW o \in Objects PROVE OpenerOK(o)'
  <2>1. stage'[o] = IF o = hardware[a] THEN "started" ELSE stage[o]
    BY <1>0, <1>a DEF TypeOK
  <2> QED
    BY <1>0, <1>a, <2>1 DEF OpenerOK
<1>4. ASSUME NEW c \in Clients PROVE ClientOK(c)'
  BY <1>0, <1>a DEF TypeOK, ObjectOK, OpenerOK, ClientOK, Live, Starting, Ending,
     OneDestroyer
<1>5. ASSUME NEW o \in Objects PROVE WorkerOK(o)'
  BY <1>0, <1>a DEF TypeOK, WorkerOK
<1>6. singleton' # 0 => Live(singleton)'
  BY <1>0, <1>a DEF TypeOK, ObjectOK, ClientOK, WorkerOK, Live
<1>7. OneDestroyer'
  BY <1>0, <1>a DEF TypeOK, OneDestroyer
<1>8. singleton_releasing' => \E o \in Objects : stage'[o] = "released"
  BY <1>0, <1>a DEF TypeOK
<1> QED
  BY <1>1, <1>2, <1>3, <1>4, <1>5, <1>6, <1>7, <1>8 DEF Inv

\* A thread is created for a camera that has started.
LEMMA CreateWorkerStep ==
  ASSUME Inv, NEW a \in Clients, CreateWorker(a)
  PROVE  Inv'
<1> USE Assumptions DEF Objects
<1>0. /\ TypeOK /\ OneDestroyer
      /\ \A o \in Objects : ObjectOK(o) /\ OpenerOK(o) /\ WorkerOK(o)
      /\ \A c \in Clients : ClientOK(c)
      /\ singleton # 0 => Live(singleton)
      /\ singleton_releasing => \E o \in Objects : stage[o] = "released"
  BY DEF Inv
<1>a. /\ worker[hardware[a]] = "none" /\ hardware[a] \in Objects
      /\ worker' = [worker EXCEPT ![hardware[a]] = "created"]
      /\ UNCHANGED <<singleton, singleton_releasing, singleton_lock, made, refs, stage,
                     mCameraControlFd, camerafd, opener, served, pc, hardware>>
  BY <1>0 DEF CreateWorker, global, device, ClientOK
<1>1. TypeOK'
  BY <1>0, <1>a DEF TypeOK, Holders
<1>2. ASSUME NEW o \in Objects PROVE ObjectOK(o)'
  BY <1>0, <1>a DEF TypeOK, ObjectOK, ClientOK, WorkerOK, Live, Starting, Ending
<1>3. ASSUME NEW o \in Objects PROVE OpenerOK(o)'
  BY <1>0, <1>a DEF TypeOK, ObjectOK, OpenerOK, ClientOK, Live, Starting
<1>4. ASSUME NEW c \in Clients PROVE ClientOK(c)'
  BY <1>0, <1>a DEF TypeOK, ObjectOK, OpenerOK, ClientOK, Live, Starting, Ending,
     OneDestroyer
<1>5. ASSUME NEW o \in Objects PROVE WorkerOK(o)'
  BY <1>0, <1>a DEF TypeOK, WorkerOK
<1>6. singleton' # 0 => Live(singleton)'
  BY <1>0, <1>a DEF TypeOK, ObjectOK, ClientOK, WorkerOK, Live
<1>7. OneDestroyer'
  BY <1>0, <1>a DEF TypeOK, OneDestroyer
<1>8. singleton_releasing' => \E o \in Objects : stage'[o] = "released"
  BY <1>0, <1>a DEF TypeOK
<1> QED
  BY <1>1, <1>2, <1>3, <1>4, <1>5, <1>6, <1>7, <1>8 DEF Inv

\* release() of a camera that has started.
LEMMA ReleaseFirst ==
  ASSUME Inv, NEW a \in Clients, Release(a), stage[hardware[a]] = "started"
  PROVE  Inv'
<1> USE Assumptions DEF Objects
<1>0. /\ TypeOK /\ OneDestroyer
      /\ \A o \in Objects : ObjectOK(o) /\ OpenerOK(o) /\ WorkerOK(o)
      /\ \A c \in Clients : ClientOK(c)
      /\ singleton # 0 => Live(singleton)
      /\ singleton_releasing => \E o \in Objects : stage[o] = "released"
  BY DEF Inv
<1>a. /\ pc[a] = "has" /\ hardware[a] \in Objects /\ a \in refs[hardware[a]]
      /\ stage[hardware[a]] = "started"
      /\ stage' = [stage EXCEPT ![hardware[a]] = "released"]
      /\ mCameraControlFd' = [mCameraControlFd EXCEPT ![hardware[a]] = 0]
      /\ pc' = [pc EXCEPT ![a] = "mark"]
      /\ UNCHANGED <<singleton, singleton_releasing, singleton_lock, made, refs,
                     camerafd, opener, worker, served, hardware>>
  BY <1>0 DEF Release, Goto, global, workers, ClientOK
<1>1. TypeOK'
  BY <1>0, <1>a DEF TypeOK, Holders
<1>2. ASSUME NEW o \in Objects PROVE ObjectOK(o)'
  BY <1>0, <1>a DEF TypeOK, ObjectOK, ClientOK, WorkerOK, Live, Starting, Ending
<1>3. ASSUME NEW o \in Objects PROVE OpenerOK(o)'
  BY <1>0, <1>a DEF TypeOK, ObjectOK, OpenerOK, ClientOK, Live, Starting
<1>4. ASSUME NEW c \in Clients PROVE ClientOK(c)'
  BY <1>0, <1>a DEF TypeOK, ObjectOK, OpenerOK, ClientOK, Live, Starting, Ending,
     OneDestroyer
<1>5. ASSUME NEW o \in Objects PROVE WorkerOK(o)'
  BY <1>0, <1>a DEF TypeOK, WorkerOK
<1>6. singleton' # 0 => Live(singleton)'
  BY <1>0, <1>a DEF TypeOK, ObjectOK, ClientOK, WorkerOK, Live
<1>7. OneDestroyer'
  BY <1>0, <1>a DEF TypeOK, OneDestroyer
<1>8. singleton_releasing' => \E o \in Objects : stage'[o] = "released"
  BY <1>0, <1>a DEF TypeOK
<1> QED
  BY <1>1, <1>2, <1>3, <1>4, <1>5, <1>6, <1>7, <1>8 DEF Inv

\* release() of a camera that has been released.
LEMMA ReleaseAgain ==
  ASSUME Inv, NEW a \in Clients, Release(a), stage[hardware[a]] # "started"
  PROVE  Inv'
<1> USE Assumptions DEF Objects
<1>0. /\ TypeOK /\ OneDestroyer
      /\ \A o \in Objects : ObjectOK(o) /\ OpenerOK(o) /\ WorkerOK(o)
      /\ \A c \in Clients : ClientOK(c)
      /\ singleton # 0 => Live(singleton)
      /\ singleton_releasing => \E o \in Objects : stage[o] = "released"
  BY DEF Inv
<1>a. /\ pc[a] = "has" /\ hardware[a] \in Objects /\ a \in refs[hardware[a]]
      /\ stage[hardware[a]] = "released"
      /\ pc' = [pc EXCEPT ![a] = "drop"]
      /\ UNCHANGED <<singleton, singleton_releasing, singleton_lock, made, refs, stage,
                     mCameraControlFd, camerafd, opener, worker, served, hardware>>
  BY <1>0 DEF Release, Goto, global, workers, ClientOK
<1>1. TypeOK'
  BY <1>0, <1>a DEF TypeOK, Holders
<1>2. ASSUME NEW o \in Objects PROVE ObjectOK(o)'
  BY <1>0, <1>a DEF TypeOK, ObjectOK, ClientOK, WorkerOK, Live, Starting, Ending
<1>3. ASSUME NEW o \in Objects PROVE OpenerOK(o)'
  BY <1>0, <1>a DEF TypeOK, ObjectOK, OpenerOK, ClientOK, Live, Starting
<1>4. ASSUME NEW c \in Clients PROVE ClientOK(c)'
  BY <1>0, <1>a DEF TypeOK, ObjectOK, OpenerOK, ClientOK, Live, Starting, Ending,
     OneDestroyer
<1>5. ASSUME NEW o \in Objects PROVE WorkerOK(o)'
  BY <1>0, <1>a DEF TypeOK, WorkerOK
<1>6. singleton' # 0 => Live(singleton)'
  BY <1>0, <1>a DEF TypeOK, ObjectOK, ClientOK, WorkerOK, Live
<1>7. OneDestroyer'
  BY <1>0, <1>a DEF TypeOK, OneDestroyer
<1>8. singleton_releasing' => \E o \in Objects : stage'[o] = "released"
  BY <1>0, <1>a DEF TypeOK
<1> QED
  BY <1>1, <1>2, <1>3, <1>4, <1>5, <1>6, <1>7, <1>8 DEF Inv

\* The last thing that release() does.
LEMMA MarkReleasingStep ==
  ASSUME Inv, NEW a \in Clients, MarkReleasing(a)
  PROVE  Inv'
<1> USE Assumptions DEF Objects
<1>0. /\ TypeOK /\ OneDestroyer
      /\ \A o \in Objects : ObjectOK(o) /\ OpenerOK(o) /\ WorkerOK(o)
      /\ \A c \in Clients : ClientOK(c)
      /\ singleton # 0 => Live(singleton)
      /\ singleton_releasing => \E o \in Objects : stage[o] = "released"
  BY DEF Inv
<1>a. /\ pc[a] = "mark" /\ hardware[a] \in Objects /\ stage[hardware[a]] = "released"
      /\ singleton_releasing' = TRUE
      /\ pc' = [pc EXCEPT ![a] = "drop"]
      /\ UNCHANGED <<singleton, singleton_lock, made, refs, stage, mCameraControlFd,
                     camerafd, opener, worker, served, hardware>>
  BY <1>0 DEF MarkReleasing, Goto, device, workers, ClientOK, Ending
<1>1. TypeOK'
  BY <1>0, <1>a DEF TypeOK, Holders
<1>2. ASSUME NEW o \in Objects PROVE ObjectOK(o)'
  BY <1>0, <1>a DEF TypeOK, ObjectOK, ClientOK, WorkerOK, Live, Starting, Ending
<1>3. ASSUME NEW o \in Objects PROVE OpenerOK(o)'
  BY <1>0, <1>a DEF TypeOK, ObjectOK, OpenerOK, ClientOK, Live, Starting
<1>4. ASSUME NEW c \in Clients PROVE ClientOK(c)'
  BY <1>0, <1>a DEF TypeOK, ObjectOK, OpenerOK, ClientOK, Live, Starting, Ending,
     OneDestroyer
<1>5. ASSUME NEW o \in Objects PROVE WorkerOK(o)'
  BY <1>0, <1>a DEF TypeOK, WorkerOK
<1>6. singleton' # 0 => Live(singleton)'
  BY <1>0, <1>a DEF TypeOK, ObjectOK, ClientOK, WorkerOK, Live
<1>7. OneDestroyer'
  BY <1>0, <1>a DEF TypeOK, OneDestroyer
<1>8. singleton_releasing' => \E o \in Objects : stage'[o] = "released"
  BY <1>0, <1>a DEF TypeOK
<1> QED
  BY <1>1, <1>2, <1>3, <1>4, <1>5, <1>6, <1>7, <1>8 DEF Inv

\* A pointer goes out of scope and others are left.
LEMMA DropOne ==
  ASSUME Inv, NEW a \in Clients, Drop(a), refs[hardware[a]] \ {a} # {}
  PROVE  Inv'
<1> USE Assumptions DEF Objects
<1>0. /\ TypeOK /\ OneDestroyer
      /\ \A o \in Objects : ObjectOK(o) /\ OpenerOK(o) /\ WorkerOK(o)
      /\ \A c \in Clients : ClientOK(c)
      /\ singleton # 0 => Live(singleton)
      /\ singleton_releasing => \E o \in Objects : stage[o] = "released"
  BY DEF Inv
<1>a. /\ pc[a] = "drop" /\ hardware[a] \in Objects /\ stage[hardware[a]] = "released"
      /\ refs[hardware[a]] \ {a} # {}
      /\ refs' = [refs EXCEPT ![hardware[a]] = refs[hardware[a]] \ {a}]
      /\ pc' = [pc EXCEPT ![a] = "idle"] /\ hardware' = [hardware EXCEPT ![a] = 0]
      /\ UNCHANGED <<singleton, singleton_releasing, singleton_lock, made, stage,
                     mCameraControlFd, camerafd, opener, worker, served>>
  BY <1>0 DEF Drop, Goto, global, device, workers, ClientOK, Ending, TypeOK
<1>1. TypeOK'
  BY <1>0, <1>a DEF TypeOK, Holders
<1>2. ASSUME NEW o \in Objects PROVE ObjectOK(o)'
  BY <1>0, <1>a DEF TypeOK, ObjectOK, ClientOK, WorkerOK, Live, Starting, Ending
<1>3. ASSUME NEW o \in Objects PROVE OpenerOK(o)'
  BY <1>0, <1>a DEF TypeOK, ObjectOK, OpenerOK, ClientOK, Live, Starting
<1>4. ASSUME NEW c \in Clients PROVE ClientOK(c)'
  BY <1>0, <1>a DEF TypeOK, ObjectOK, OpenerOK, ClientOK, Live, Starting, Ending,
     OneDestroyer
<1>5. ASSUME NEW o \in Objects PROVE WorkerOK(o)'
  <2>1. CASE served[o] = hardware[a]
    BY <1>0, <1>a, <2>1 DEF TypeOK, WorkerOK
  <2>2. CASE served[o] # hardware[a]
    BY <1>0, <1>a, <2>2 DEF TypeOK, WorkerOK
  <2> QED
    BY <2>1, <2>2
<1>6. singleton' # 0 => Live(singleton)'
  BY <1>0, <1>a DEF TypeOK, ObjectOK, ClientOK, WorkerOK, Live
<1>7. OneDestroyer'
  BY <1>0, <1>a DEF TypeOK, OneDestroyer
<1>8. singleton_releasing' => \E o \in Objects : stage'[o] = "released"
  BY <1>0, <1>a DEF TypeOK
<1> QED
  BY <1>1, <1>2, <1>3, <1>4, <1>5, <1>6, <1>7, <1>8 DEF Inv

\* The last pointer goes out of scope: no other thread runs the destructor of the object.
LEMMA DropLast ==
  ASSUME Inv, NEW a \in Clients, Drop(a), refs[hardware[a]] \ {a} = {}
  PROVE  Inv'
<1> USE Assumptions DEF Objects
<1>0. /\ TypeOK /\ OneDestroyer
      /\ \A o \in Objects : ObjectOK(o) /\ OpenerOK(o) /\ WorkerOK(o)
      /\ \A c \in Clients : ClientOK(c)
      /\ singleton # 0 => Live(singleton)
      /\ singleton_releasing => \E o \in Objects : stage[o] = "released"
  BY DEF Inv
<1>a. /\ pc[a] = "drop" /\ hardware[a] \in Objects /\ stage[hardware[a]] = "released"
      /\ a \in refs[hardware[a]] /\ refs[hardware[a]] \ {a} = {} /\ singleton = hardware[a]
      /\ refs' = [refs EXCEPT ![hardware[a]] = {}]
      /\ pc' = [pc EXCEPT ![a] = "destroy"]
      /\ UNCHANGED <<singleton, singleton_releasing, singleton_lock, made, stage,
                     mCameraControlFd, camerafd, opener, worker, served, hardware>>
  <2>1. /\ pc[a] = "drop" /\ hardware[a] \in Objects /\ stage[hardware[a]] = "released"
        /\ a \in refs[hardware[a]] /\ singleton = hardware[a]
    BY <1>0 DEF Drop, ClientOK, ObjectOK, Live, Ending
  <2>2. refs' = [refs EXCEPT ![hardware[a]] = {}] /\ refs'[hardware[a]] = {}
    BY <1>0, <2>1 DEF Drop, TypeOK
  <2> QED
    BY <2>1, <2>2 DEF Drop, Goto, global, device, workers
<1>1. TypeOK'
  BY <1>0, <1>a DEF TypeOK, Holders
<1>2. ASSUME NEW o \in Objects PROVE ObjectOK(o)'
  BY <1>0, <1>a DEF TypeOK, ObjectOK, ClientOK, WorkerOK, Live, Starting, Ending
<1>3. ASSUME NEW o \in Objects PROVE OpenerOK(o)'
  BY <1>0, <1>a DEF TypeOK, ObjectOK, OpenerOK, ClientOK, Live, Starting
<1>4. ASSUME NEW c \in Clients PROVE ClientOK(c)'
  BY <1>0, <1>a DEF TypeOK, ObjectOK, OpenerOK, ClientOK, Live, Starting, Ending,
     OneDestroyer
<1>5. ASSUME NEW o \in Objects PROVE WorkerOK(o)'
  <2>1. CASE served[o] = hardware[a]
    BY <1>0, <1>a, <2>1 DEF TypeOK, WorkerOK
  <2>2. CASE served[o] # hardware[a]
    BY <1>0, <1>a, <2>2 DEF TypeOK, WorkerOK
  <2> QED
    BY <2>1, <2>2
<1>6. singleton' # 0 => Live(singleton)'
  BY <1>0, <1>a DEF TypeOK, ObjectOK, ClientOK, WorkerOK, Live
<1>7. OneDestroyer'
  <2>1. \A c \in Clients : pc[c] # "destroy"
    BY <1>0, <1>a DEF ClientOK, ObjectOK, Live
  <2>2. \A o \in Objects : worker[o] # "destroys"
    BY <1>0, <1>a DEF WorkerOK, ObjectOK, Live
  <2> QED
    BY <1>0, <1>a, <2>1, <2>2 DEF TypeOK, OneDestroyer
<1>8. singleton_releasing' => \E o \in Objects : stage'[o] = "released"
  BY <1>0, <1>a DEF TypeOK
<1> QED
  BY <1>1, <1>2, <1>3, <1>4, <1>5, <1>6, <1>7, <1>8 DEF Inv

\* The destructor, in the thread of a client.
LEMMA ClientDestroysStep ==
  ASSUME Inv, NEW a \in Clients, ClientDestroys(a)
  PROVE  Inv'
<1> USE Assumptions DEF Objects
<1>0. /\ TypeOK /\ OneDestroyer
      /\ \A o \in Objects : ObjectOK(o) /\ OpenerOK(o) /\ WorkerOK(o)
      /\ \A c \in Clients : ClientOK(c)
      /\ singleton # 0 => Live(singleton)
      /\ singleton_releasing => \E o \in Objects : stage[o] = "released"
  BY DEF Inv
<1>a. /\ pc[a] = "destroy" /\ hardware[a] \in Objects /\ stage[hardware[a]] = "released"
      /\ refs[hardware[a]] = {} /\ singleton = hardware[a] /\ singleton_lock = "free"
      /\ singleton' = 0 /\ singleton_releasing' = FALSE
      /\ stage' = [stage EXCEPT ![hardware[a]] = "dead"]
      /\ pc' = [pc EXCEPT ![a] = "idle"] /\ hardware' = [hardware EXCEPT ![a] = 0]
      /\ UNCHANGED <<singleton_lock, made, refs, mCameraControlFd, camerafd, opener,
                     worker, served>>
  BY <1>0 DEF ClientDestroys, Destroy, Goto, device, ClientOK, ObjectOK, Live
<1>1. TypeOK'
  <2>1. singleton_releasing' \in BOOLEAN
    BY <1>a, Zenon
  <2>2. stage' \in [Objects -> {"none", "new", "started", "released", "dead"}]
    BY <1>0, <1>a DEF TypeOK
  <2>3. singleton' \in 0..MaxObjects
    BY <1>a
  <2> QED
    BY <1>0, <1>a, <2>1, <2>2, <2>3 DEF TypeOK
<1>2. ASSUME NEW o \in Objects PROVE ObjectOK(o)'
  BY <1>0, <1>a DEF TypeOK, ObjectOK, ClientOK, WorkerOK, Live, Starting, Ending
<1>3. ASSUME NEW o \in Objects PROVE OpenerOK(o)'
  BY <1>0, <1>a DEF TypeOK, ObjectOK, OpenerOK, ClientOK, Live, Starting
<1>4. ASSUME NEW c \in Clients PROVE ClientOK(c)'
  BY <1>0, <1>a DEF TypeOK, ObjectOK, OpenerOK, ClientOK, Live, Starting, Ending,
     OneDestroyer
<1>5. ASSUME NEW o \in Objects PROVE WorkerOK(o)'
  BY <1>0, <1>a DEF TypeOK, ObjectOK, ClientOK, WorkerOK, Live, WorkerOf, OneDestroyer
<1>6. singleton' # 0 => Live(singleton)'
  BY <1>0, <1>a DEF TypeOK, ObjectOK, ClientOK, WorkerOK, Live
<1>7. OneDestroyer'
  BY <1>0, <1>a DEF TypeOK, OneDestroyer
<1>8. singleton_releasing' => \E o \in Objects : stage'[o] = "released"
  BY <1>0, <1>a DEF TypeOK
<1> QED
  BY <1>1, <1>2, <1>3, <1>4, <1>5, <1>6, <1>7, <1>8 DEF Inv

\* The open thread of an object: no other one runs.
LEMMA OpenCameraFdStep ==
  ASSUME Inv, NEW a \in Objects, OpenCameraFd(a), StartFails \subseteq {"oncrpc"}
  PROVE  Inv'
<1> USE Assumptions DEF Objects
<1>0. /\ TypeOK /\ OneDestroyer
      /\ \A o \in Objects : ObjectOK(o) /\ OpenerOK(o) /\ WorkerOK(o)
      /\ \A c \in Clients : ClientOK(c)
      /\ singleton # 0 => Live(singleton)
      /\ singleton_releasing => \E o \in Objects : stage[o] = "released"
  BY DEF Inv
<1>a. /\ opener[a] = "running" /\ stage[a] = "new"
      /\ opener' = [opener EXCEPT ![a] = "done"] /\ camerafd' = a
      /\ UNCHANGED <<singleton, singleton_releasing, singleton_lock, made, refs, stage,
                     mCameraControlFd, worker, served, pc, hardware>>
  BY <1>0 DEF OpenCameraFd, global, workers, OpenerOK
<1>1. TypeOK'
  BY <1>0, <1>a DEF TypeOK, Holders
<1>2. ASSUME NEW o \in Objects PROVE ObjectOK(o)'
  BY <1>0, <1>a DEF TypeOK, ObjectOK, ClientOK, WorkerOK, Live, Starting, Ending
<1>3. ASSUME NEW o \in Objects PROVE OpenerOK(o)'
  BY <1>0, <1>a DEF TypeOK, ObjectOK, OpenerOK, ClientOK, Live, Starting
<1>4. ASSUME NEW c \in Clients PROVE ClientOK(c)'
  BY <1>0, <1>a DEF TypeOK, ObjectOK, OpenerOK, ClientOK, Live, Starting, Ending,
     OneDestroyer
<1>5. ASSUME NEW o \in Objects PROVE WorkerOK(o)'
  BY <1>0, <1>a DEF TypeOK, WorkerOK
<1>6. singleton' # 0 => Live(singleton)'
  BY <1>0, <1>a DEF TypeOK, ObjectOK, ClientOK, WorkerOK, Live
<1>7. OneDestroyer'
  BY <1>0, <1>a DEF TypeOK, OneDestroyer
<1>8. singleton_releasing' => \E o \in Objects : stage'[o] = "released"
  BY <1>0, <1>a DEF TypeOK
<1> QED
  BY <1>1, <1>2, <1>3, <1>4, <1>5, <1>6, <1>7, <1>8 DEF Inv

\* A thread of an object finds the singleton.
LEMMA GetInstanceFinds ==
  ASSUME Inv, NEW a \in Objects, GetInstance(a), Promotes(singleton)
  PROVE  Inv'
<1> USE Assumptions DEF Objects
<1>0. /\ TypeOK /\ OneDestroyer
      /\ \A o \in Objects : ObjectOK(o) /\ OpenerOK(o) /\ WorkerOK(o)
      /\ \A c \in Clients : ClientOK(c)
      /\ singleton # 0 => Live(singleton)
      /\ singleton_releasing => \E o \in Objects : stage[o] = "released"
  BY DEF Inv
<1>a. /\ worker[a] = "created" /\ singleton \in Objects /\ refs[singleton] # {}
      /\ refs' = [refs EXCEPT ![singleton] = refs[singleton] \union {WorkerOf(a)}]
      /\ worker' = [worker EXCEPT ![a] = "running"]
      /\ served' = [served EXCEPT ![a] = singleton]
      /\ UNCHANGED <<singleton, singleton_releasing, singleton_lock, made, stage,
                     mCameraControlFd, camerafd, opener, pc, hardware>>
  BY <1>0 DEF GetInstance, Promotes, global, device, TypeOK
<1>1. TypeOK'
  BY <1>0, <1>a DEF TypeOK, Holders
<1>2. ASSUME NEW o \in Objects PROVE ObjectOK(o)'
  BY <1>0, <1>a DEF TypeOK, ObjectOK, ClientOK, WorkerOK, Live, Starting, Ending
<1>3. ASSUME NEW o \in Objects PROVE OpenerOK(o)'
  BY <1>0, <1>a DEF TypeOK, ObjectOK, OpenerOK, ClientOK, Live, Starting
<1>4. ASSUME NEW c \in Clients PROVE ClientOK(c)'
  BY <1>0, <1>a DEF TypeOK, ObjectOK, OpenerOK, ClientOK, Live, Starting, Ending,
     OneDestroyer
<1>5. ASSUME NEW o \in Objects PROVE WorkerOK(o)'
  BY <1>0, <1>a DEF TypeOK, ObjectOK, ClientOK, WorkerOK, Live, WorkerOf, OneDestroyer
<1>6. singleton' # 0 => Live(singleton)'
  BY <1>0, <1>a DEF TypeOK, ObjectOK, ClientOK, WorkerOK, Live
<1>7. OneDestroyer'
  BY <1>0, <1>a DEF TypeOK, OneDestroyer
<1>8. singleton_releasing' => \E o \in Objects : stage'[o] = "released"
  BY <1>0, <1>a DEF TypeOK
<1> QED
  BY <1>1, <1>2, <1>3, <1>4, <1>5, <1>6, <1>7, <1>8 DEF Inv

\* A thread of an object finds none.
LEMMA GetInstanceNull ==
  ASSUME Inv, NEW a \in Objects, GetInstance(a), ~Promotes(singleton)
  PROVE  Inv'
<1> USE Assumptions DEF Objects
<1>0. /\ TypeOK /\ OneDestroyer
      /\ \A o \in Objects : ObjectOK(o) /\ OpenerOK(o) /\ WorkerOK(o)
      /\ \A c \in Clients : ClientOK(c)
      /\ singleton # 0 => Live(singleton)
      /\ singleton_releasing => \E o \in Objects : stage[o] = "released"
  BY DEF Inv
<1>a. /\ worker[a] = "created"
      /\ worker' = [worker EXCEPT ![a] = "gone"]
      /\ UNCHANGED <<singleton, singleton_releasing, singleton_lock, made, refs, stage,
                     mCameraControlFd, camerafd, opener, served, pc, hardware>>
  BY <1>0 DEF GetInstance, global, device
<1>1. TypeOK'
  BY <1>0, <1>a DEF TypeOK, Holders
<1>2. ASSUME NEW o \in Objects PROVE ObjectOK(o)'
  BY <1>0, <1>a DEF TypeOK, ObjectOK, ClientOK, WorkerOK, Live, Starting, Ending
<1>3. ASSUME NEW o \in Objects PROVE OpenerOK(o)'
  BY <1>0, <1>a DEF TypeOK, ObjectOK, OpenerOK, ClientOK, Live, Starting
<1>4. ASSUME NEW c \in Clients PROVE ClientOK(c)'
  BY <1>0, <1>a DEF TypeOK, ObjectOK, OpenerOK, ClientOK, Live, Starting, Ending,
     OneDestroyer
<1>5. ASSUME NEW o \in Objects PROVE WorkerOK(o)'
  BY <1>0, <1>a DEF TypeOK, WorkerOK
<1>6. singleton' # 0 => Live(singleton)'
  BY <1>0, <1>a DEF TypeOK, ObjectOK, ClientOK, WorkerOK, Live
<1>7. OneDestroyer'
  BY <1>0, <1>a DEF TypeOK, OneDestroyer
<1>8. singleton_releasing' => \E o \in Objects : stage'[o] = "released"
  BY <1>0, <1>a DEF TypeOK
<1> QED
  BY <1>1, <1>2, <1>3, <1>4, <1>5, <1>6, <1>7, <1>8 DEF Inv

\* A thread drops its pointer and others are left.
LEMMA WorkerEndsOne ==
  ASSUME Inv, NEW a \in Objects, WorkerEnds(a), refs[served[a]] \ {WorkerOf(a)} # {}
  PROVE  Inv'
<1> USE Assumptions DEF Objects
<1>0. /\ TypeOK /\ OneDestroyer
      /\ \A o \in Objects : ObjectOK(o) /\ OpenerOK(o) /\ WorkerOK(o)
      /\ \A c \in Clients : ClientOK(c)
      /\ singleton # 0 => Live(singleton)
      /\ singleton_releasing => \E o \in Objects : stage[o] = "released"
  BY DEF Inv
<1>w. \A o, p \in Objects : WorkerOf(o) = WorkerOf(p) => o = p
  BY DEF WorkerOf
<1>a. /\ worker[a] = "running" /\ served[a] \in Objects /\ stage[served[a]] = "released"
      /\ refs[served[a]] \ {WorkerOf(a)} # {}
      /\ refs' = [refs EXCEPT ![served[a]] = refs[served[a]] \ {WorkerOf(a)}]
      /\ worker' = [worker EXCEPT ![a] = "gone"]
      /\ UNCHANGED <<singleton, singleton_releasing, singleton_lock, made, stage,
                     mCameraControlFd, camerafd, opener, served, pc, hardware>>
  BY <1>0 DEF WorkerEnds, global, device, WorkerOK, TypeOK
<1>1. TypeOK'
  BY <1>0, <1>a DEF TypeOK, Holders
<1>2. ASSUME NEW o \in Objects PROVE ObjectOK(o)'
  <2>1. refs'[o] # {} <=> refs[o] # {}
    BY <1>0, <1>a DEF TypeOK
  <2> QED
    BY <1>0, <1>a, <2>1 DEF ObjectOK, Live, Starting
<1>3. ASSUME NEW o \in Objects PROVE OpenerOK(o)'
  BY <1>0, <1>a DEF TypeOK, ObjectOK, OpenerOK, ClientOK, Live, Starting
<1>4. ASSUME NEW c \in Clients PROVE ClientOK(c)'
  BY <1>0, <1>a DEF TypeOK, ObjectOK, OpenerOK, ClientOK, Live, Starting, Ending,
     OneDestroyer
<1>5. ASSUME NEW o \in Objects PROVE WorkerOK(o)'
  <2>1. CASE o = a
    BY <1>0, <1>a, <2>1 DEF TypeOK, WorkerOK
  <2>2. CASE o # a
    BY <1>0, <1>a, <1>w, <2>2 DEF TypeOK, WorkerOK
  <2> QED
    BY <2>1, <2>2
<1>6. singleton' # 0 => Live(singleton)'
  BY <1>0, <1>a DEF TypeOK, ObjectOK, ClientOK, WorkerOK, Live
<1>7. OneDestroyer'
  <2>1. \A o \in Objects : worker'[o] = "destroys" => worker[o] = "destroys"
    BY <1>0, <1>a DEF TypeOK
  <2> QED
    BY <1>0, <1>a, <2>1 DEF OneDestroyer
<1>8. singleton_releasing' => \E o \in Objects : stage'[o] = "released"
  BY <1>0, <1>a DEF TypeOK
<1> QED
  BY <1>1, <1>2, <1>3, <1>4, <1>5, <1>6, <1>7, <1>8 DEF Inv

\* A thread drops the last pointer.
LEMMA WorkerEndsLast ==
  ASSUME Inv, NEW a \in Objects, WorkerEnds(a), refs[served[a]] \ {WorkerOf(a)} = {}
  PROVE  Inv'
<1> USE Assumptions DEF Objects
<1>0. /\ TypeOK /\ OneDestroyer
      /\ \A o \in Objects : ObjectOK(o) /\ OpenerOK(o) /\ WorkerOK(o)
      /\ \A c \in Clients : ClientOK(c)
      /\ singleton # 0 => Live(singleton)
      /\ singleton_releasing => \E o \in Objects : stage[o] = "released"
  BY DEF Inv
<1>w. \A o, p \in Objects : WorkerOf(o) = WorkerOf(p) => o = p
  BY DEF WorkerOf
<1>a. /\ worker[a] = "running" /\ served[a] \in Objects /\ stage[served[a]] = "released"
      /\ WorkerOf(a) \in refs[served[a]] /\ refs[served[a]] \ {WorkerOf(a)} = {}
      /\ singleton = served[a]
      /\ refs' = [refs EXCEPT ![served[a]] = {}]
      /\ worker' = [worker EXCEPT ![a] = "destroys"]
      /\ UNCHANGED <<singleton, singleton_releasing, singleton_lock, made, stage,
                     mCameraControlFd, camerafd, opener, served, pc, hardware>>
  <2>1. /\ worker[a] = "running" /\ served[a] \in Objects /\ stage[served[a]] = "released"
        /\ WorkerOf(a) \in refs[served[a]] /\ singleton = served[a]
    BY <1>0 DEF WorkerEnds, WorkerOK, ObjectOK, Live
  <2>2. refs' = [refs EXCEPT ![served[a]] = {}] /\ refs'[served[a]] = {}
    BY <1>0, <2>1 DEF WorkerEnds, TypeOK
  <2> QED
    BY <2>1, <2>2 DEF WorkerEnds, global, device
<1>1. TypeOK'
  BY <1>0, <1>a DEF TypeOK, Holders
<1>2. ASSUME NEW o \in Objects PROVE ObjectOK(o)'
  BY <1>0, <1>a DEF TypeOK, ObjectOK, ClientOK, WorkerOK, Live, Starting, Ending
<1>3. ASSUME NEW o \in Objects PROVE OpenerOK(o)'
  BY <1>0, <1>a DEF TypeOK, ObjectOK, OpenerOK, ClientOK, Live, Starting
<1>4. ASSUME NEW c \in Clients PROVE ClientOK(c)'
  BY <1>0, <1>a DEF TypeOK, ObjectOK, OpenerOK, ClientOK, Live, Starting, Ending,
     OneDestroyer
<1>5. ASSUME NEW o \in Objects PROVE WorkerOK(o)'
  <2>1. CASE o = a
    BY <1>0, <1>a, <2>1 DEF TypeOK, WorkerOK
  <2>2. CASE o # a /\ served[o] = served[a]
    BY <1>0, <1>a, <1>w, <2>2 DEF TypeOK, WorkerOK
  <2>3. CASE o # a /\ served[o] # served[a]
    BY <1>0, <1>a, <2>3 DEF TypeOK, WorkerOK
  <2> QED
    BY <2>1, <2>2, <2>3
<1>6. singleton' # 0 => Live(singleton)'
  BY <1>0, <1>a DEF TypeOK, ObjectOK, ClientOK, WorkerOK, Live
<1>7. OneDestroyer'
  <2>1. \A c \in Clients : pc[c] # "destroy"
    BY <1>0, <1>a DEF ClientOK, ObjectOK, Live
  <2>2. \A o \in Objects : worker[o] # "destroys"
    BY <1>0, <1>a DEF WorkerOK, ObjectOK, Live
  <2> QED
    BY <1>0, <1>a, <2>1, <2>2 DEF TypeOK, OneDestroyer
<1>8. singleton_releasing' => \E o \in Objects : stage'[o] = "released"
  BY <1>0, <1>a DEF TypeOK
<1> QED
  BY <1>1, <1>2, <1>3, <1>4, <1>5, <1>6, <1>7, <1>8 DEF Inv

\* The destructor, in the thread of an object.
LEMMA WorkerDestroysStep ==
  ASSUME Inv, NEW a \in Objects, WorkerDestroys(a)
  PROVE  Inv'
<1> USE Assumptions DEF Objects
<1>0. /\ TypeOK /\ OneDestroyer
      /\ \A o \in Objects : ObjectOK(o) /\ OpenerOK(o) /\ WorkerOK(o)
      /\ \A c \in Clients : ClientOK(c)
      /\ singleton # 0 => Live(singleton)
      /\ singleton_releasing => \E o \in Objects : stage[o] = "released"
  BY DEF Inv
<1>a. /\ worker[a] = "destroys" /\ served[a] \in Objects /\ stage[served[a]] = "released"
      /\ refs[served[a]] = {} /\ singleton = served[a] /\ singleton_lock = "free"
      /\ singleton' = 0 /\ singleton_releasing' = FALSE
      /\ stage' = [stage EXCEPT ![served[a]] = "dead"]
      /\ worker' = [worker EXCEPT ![a] = "gone"]
      /\ UNCHANGED <<singleton_lock, made, refs, mCameraControlFd, camerafd, opener,
                     served, pc, hardware>>
  BY <1>0 DEF WorkerDestroys, Destroy, device, WorkerOK, ObjectOK, Live
<1>1. TypeOK'
  <2>1. singleton_releasing' \in BOOLEAN
    BY <1>a, Zenon
  <2>2. stage' \in [Objects -> {"none", "new", "started", "released", "dead"}]
    BY <1>0, <1>a DEF TypeOK
  <2>3. singleton' \in 0..MaxObjects
    BY <1>a
  <2> QED
    BY <1>0, <1>a, <2>1, <2>2, <2>3 DEF TypeOK
<1>2. ASSUME NEW o \in Objects PROVE ObjectOK(o)'
  BY <1>0, <1>a DEF TypeOK, ObjectOK, ClientOK, WorkerOK, Live, Starting, Ending
<1>3. ASSUME NEW o \in Objects PROVE OpenerOK(o)'
  BY <1>0, <1>a DEF TypeOK, ObjectOK, OpenerOK, ClientOK, Live, Starting
<1>4. ASSUME NEW c \in Clients PROVE ClientOK(c)'
  BY <1>0, <1>a DEF TypeOK, ObjectOK, OpenerOK, ClientOK, Live, Starting, Ending,
     OneDestroyer
<1>5. ASSUME NEW o \in Objects PROVE WorkerOK(o)'
  BY <1>0, <1>a DEF TypeOK, ObjectOK, ClientOK, WorkerOK, Live, WorkerOf, OneDestroyer
<1>6. singleton' # 0 => Live(singleton)'
  BY <1>0, <1>a DEF TypeOK, ObjectOK, ClientOK, WorkerOK, Live
<1>7. OneDestroyer'
  BY <1>0, <1>a DEF TypeOK, OneDestroyer
<1>8. singleton_releasing' => \E o \in Objects : stage'[o] = "released"
  BY <1>0, <1>a DEF TypeOK
<1> QED
  BY <1>1, <1>2, <1>3, <1>4, <1>5, <1>6, <1>7, <1>8 DEF Inv

\* Initially there is no object.
LEMMA InitInv == Init => Inv
<1> SUFFICES ASSUME Init PROVE Inv
  OBVIOUS
<1> USE Assumptions DEF Objects
<1>1. singleton_releasing \in BOOLEAN
  BY Zenon DEF Init
<1>2. TypeOK
  BY <1>1 DEF Init, TypeOK
<1> QED
  BY <1>2 DEF Init, Inv, ObjectOK, OpenerOK, ClientOK, WorkerOK, OneDestroyer, Live,
     Starting, Ending

\* Every step of the specification keeps the invariant.
LEMMA NextInv ==
  ASSUME StartFails \subseteq {"oncrpc"}, Inv, [Next]_vars
  PROVE  Inv'
<1>1. CASE UNCHANGED vars
  <2>1. TypeOK'
    BY <1>1, Zenon DEF vars, Inv, TypeOK
  <2>2. /\ \A o \in Objects : ObjectOK(o)' /\ OpenerOK(o)' /\ WorkerOK(o)'
        /\ singleton' # 0 => Live(singleton)'
        /\ singleton_releasing' => \E o \in Objects : stage'[o] = "released"
    BY <1>1 DEF vars, Inv, ObjectOK, OpenerOK, WorkerOK, Live, Starting
  <2>3. OneDestroyer' /\ \A c \in Clients : ClientOK(c)'
    BY <1>1 DEF vars, Inv, OneDestroyer, ClientOK, Starting, Ending
  <2> QED
    BY <2>1, <2>2, <2>3 DEF Inv
<1>2. ASSUME NEW c \in Clients, Enter(c) \/ CreateWorker(c) \/ ClientStep(c) PROVE Inv'
  BY <1>2, EnterStep, CreateWorkerStep, WaitReleaseStep, ReturnExistingStep, NoRpcStep,
     ConstructStep, LoadLibraryStep, JoinStep, StartedStep, ReleaseFirst, ReleaseAgain,
     MarkReleasingStep, DropOne, DropLast, ClientDestroysStep DEF ClientStep
<1>3. ASSUME NEW o \in Objects, ObjectStep(o) PROVE Inv'
  BY <1>3, OpenCameraFdStep, GetInstanceFinds, GetInstanceNull, WorkerEndsOne,
     WorkerEndsLast,
     WorkerDestroysStep DEF ObjectStep
<1> QED
  BY <1>1, <1>2, <1>3 DEF Next

\* "If the hardware already exists, return a strong pointer to the current
\* object": at most one object runs the camera, it is the one that
\* createInstance() returns, by the descriptor that its own thread opened, and
\* singleton_releasing never outlives the released object, whatever clients and
\* threads interleave.
THEOREM OneCameraAlways ==
  ASSUME StartFails \subseteq {"oncrpc"}
  PROVE  Spec => [](TypeOK /\ OneCamera)
<1>1. Inv => TypeOK /\ OneCamera
  BY DEF Inv, ObjectOK, OpenerOK, Live, OneCamera, ReturnsTheCurrent, ReleasingEnds,
     OwnDescriptor
<1>2. Inv /\ [Next]_vars => Inv'
  BY NextInv
<1> QED
  BY InitInv, <1>1, <1>2, PTL DEF Spec
=============================================================================
