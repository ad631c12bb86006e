-------------------------- MODULE CameraSingleton --------------------------
(***************************************************************************)
(* libcamera/QualcommCameraHardware.cpp: the life of the one camera object *)
(* of the media server.                                                    *)
(*                                                                         *)
(* createInstance() returns the object that exists or makes one and starts *)
(* the camera; a client calls release() and drops its reference, and the   *)
(* thread that drops the last one runs the destructor.  The singleton is a *)
(* weak pointer.  A thread that the object has created (frame, snapshot    *)
(* and focus threads are alike here) looks the object up by getInstance(). *)
(*                                                                         *)
(* The objects are numbered in the order they are made, and a descriptor   *)
(* of the camera device by the object whose thread opened it.              *)
(***************************************************************************)
EXTENDS Integers, FiniteSets

CONSTANTS
  Clients,      \* threads of the camera service
  MaxObjects,   \* bound: how many objects are made
  StartFails    \* steps of startCamera() that may fail

VARIABLES
  singleton,             \* the weak pointer; 0 is NULL
  singleton_releasing,
  singleton_lock,        \* the thread that holds it
  made,                  \* how many objects have been made
  refs,                  \* the holders of strong pointers to an object
  stage,                 \* of an object: "none", "new", "started", "released", "dead"
  mCameraControlFd,      \* per object; 0 if it has none
  camerafd,              \* the global that the open thread writes
  opener,                \* the open thread of an object
  worker,                \* the thread that an object has created
  served,                \* the object that getInstance() gave to that thread
  pc, hardware           \* of the clients

vars == <<singleton, singleton_releasing, singleton_lock, made, refs, stage,
          mCameraControlFd, camerafd, opener, worker, served, pc, hardware>>
global == <<singleton, singleton_releasing>>
device == <<mCameraControlFd, camerafd, opener>>
workers == <<worker, served>>

-----------------------------------------------------------------------------

Objects == 1..MaxObjects
WorkerOf(o) == <<"worker", o>>
Holders == Clients \union {WorkerOf(o) : o \in Objects}

ASSUME Assumptions ==
  /\ MaxObjects \in Nat
  /\ "free" \notin Clients
  /\ \A o \in Objects : WorkerOf(o) \notin Clients

Init ==
  /\ singleton = 0 /\ singleton_releasing = FALSE /\ singleton_lock = "free"
  /\ made = 0
  /\ refs = [o \in Objects |-> {}] /\ stage = [o \in Objects |-> "none"]
  /\ mCameraControlFd = [o \in Objects |-> 0] /\ camerafd = 0
  /\ opener = [o \in Objects |-> "none"]
  /\ worker = [o \in Objects |-> "none"] /\ served = [o \in Objects |-> 0]
  /\ pc = [c \in Clients |-> "idle"] /\ hardware = [c \in Clients |-> 0]

Goto(c, l) == pc' = [pc EXCEPT ![c] = l]

\* wp::promote(): succeeds while somebody holds the object.
Promotes(o) == o # 0 /\ refs[o] # {}

-----------------------------------------------------------------------------
(* createInstance()                                                        *)

Enter(c) ==
  /\ pc[c] \in {"idle", "waiting"} /\ singleton_lock = "free"
  /\ singleton_lock' = c /\ Goto(c, "check")
  /\ UNCHANGED <<global, made, refs, stage, device, workers, hardware>>

\* The previous release is not done: wait for the signal or a second; after
\* five seconds give up.
WaitRelease(c) ==
  /\ pc[c] = "check" /\ singleton_releasing
  /\ singleton_lock' = "free"
  /\ \E l \in {"waiting", "idle"} : Goto(c, l)
  /\ UNCHANGED <<global, made, refs, stage, device, workers, hardware>>

ReturnExisting(c) ==
  /\ pc[c] = "check" /\ ~singleton_releasing /\ Promotes(singleton)
  /\ refs' = [refs EXCEPT ![singleton] = @ \union {c}]
  /\ hardware' = [hardware EXCEPT ![c] = singleton]
  /\ singleton_lock' = "free" /\ Goto(c, "has")
  /\ UNCHANGED <<global, made, stage, device, workers>>

\* stat("/dev/oncrpc") fails.
NoRpc(c) ==
  /\ pc[c] = "check" /\ ~singleton_releasing /\ ~Promotes(singleton)
  /\ "oncrpc" \in StartFails
  /\ singleton_lock' = "free" /\ Goto(c, "idle")
  /\ UNCHANGED <<global, made, refs, stage, device, workers, hardware>>

\* The constructor starts the thread that opens the device.
Construct(c) ==
  /\ pc[c] = "check" /\ ~singleton_releasing /\ ~Promotes(singleton)
  /\ made < MaxObjects
  /\ LET o == made + 1 IN
       /\ made' = o /\ singleton' = o
       /\ refs' = [refs EXCEPT ![o] = {c}]
       /\ stage' = [stage EXCEPT ![o] = "new"]
       /\ opener' = [opener EXCEPT ![o] = "running"]
       /\ hardware' = [hardware EXCEPT ![c] = o]
  /\ Goto(c, "dlopen")
  /\ UNCHANGED <<singleton_releasing, singleton_lock, mCameraControlFd, camerafd, workers>>

\* opencamerafd(), in its thread.
OpenCameraFd(o) ==
  /\ opener[o] = "running"
  /\ opener' = [opener EXCEPT ![o] = "done"]
  /\ \/ camerafd' = o
     \/ "open" \in StartFails /\ camerafd' = -1
  /\ UNCHANGED <<global, singleton_lock, made, refs, stage, mCameraControlFd, workers,
                 pc, hardware>>

\* startCamera() loads the library before it joins the open thread.
LoadLibrary(c) ==
  /\ pc[c] = "dlopen"
  /\ \/ Goto(c, "join") /\ UNCHANGED singleton_lock
     \/ "dlopen" \in StartFails /\ Goto(c, "drop") /\ singleton_lock' = "free"
  /\ UNCHANGED <<global, made, refs, stage, device, workers, hardware>>

Join(c) ==
  LET o == hardware[c] IN
  /\ pc[c] = "join" /\ opener[o] = "done"
  /\ mCameraControlFd' = [mCameraControlFd EXCEPT ![o] = camerafd]
  /\ Goto(c, "conf")
  /\ UNCHANGED <<global, singleton_lock, made, refs, stage, camerafd, opener, workers,
                 hardware>>

\* The frame buffer is opened and the configuration thread launched; then
\* createInstance() unlocks and returns, NULL if anything has failed.
Started(c) ==
  LET o == hardware[c] IN
  /\ pc[c] = "conf"
  /\ singleton_lock' = "free"
  /\ \/ /\ mCameraControlFd[o] > 0
        /\ stage' = [stage EXCEPT ![o] = "started"] /\ Goto(c, "has")
     \/ /\ mCameraControlFd[o] < 0 \/ StartFails \intersect {"fb", "conf"} # {}
        /\ Goto(c, "drop") /\ UNCHANGED stage
  /\ UNCHANGED <<global, made, refs, device, workers, hardware>>

-----------------------------------------------------------------------------
(* The use of the object, and its end                                      *)

\* startPreview(), takePicture() or autoFocus() create a detached thread.
CreateWorker(c) ==
  LET o == hardware[c] IN
  /\ pc[c] = "has" /\ stage[o] = "started" /\ worker[o] = "none"
  /\ worker' = [worker EXCEPT ![o] = "created"]
  /\ UNCHANGED <<global, singleton_lock, made, refs, stage, device, served, pc, hardware>>

\* getInstance() reads the singleton without the lock.
GetInstance(o) ==
  /\ worker[o] = "created"
  /\ IF Promotes(singleton)
     THEN /\ refs' = [refs EXCEPT ![singleton] = @ \union {WorkerOf(o)}]
          /\ worker' = [worker EXCEPT ![o] = "running"]
          /\ served' = [served EXCEPT ![o] = singleton]
     ELSE worker' = [worker EXCEPT ![o] = "gone"] /\ UNCHANGED <<refs, served>>
  /\ UNCHANGED <<global, singleton_lock, made, stage, device, pc, hardware>>

\* The thread has been told to end; it drops its pointer as it returns.
WorkerEnds(o) ==
  /\ worker[o] = "running" /\ stage[served[o]] = "released"
  /\ refs' = [refs EXCEPT ![served[o]] = @ \ {WorkerOf(o)}]
  /\ worker' = [worker EXCEPT ![o] = IF refs'[served[o]] = {} THEN "destroys" ELSE "gone"]
  /\ UNCHANGED <<global, singleton_lock, made, stage, device, served, pc, hardware>>

\* release() up to the dlclose(); a second one returns at once.
Release(c) ==
  LET o == hardware[c] IN
  /\ pc[c] = "has"
  /\ IF stage[o] = "started"
     THEN /\ stage' = [stage EXCEPT ![o] = "released"]
          /\ mCameraControlFd' = [mCameraControlFd EXCEPT ![o] = 0]
          /\ Goto(c, "mark")
     ELSE Goto(c, "drop") /\ UNCHANGED <<stage, mCameraControlFd>>
  /\ UNCHANGED <<global, singleton_lock, made, refs, camerafd, opener, workers, hardware>>

\* The last thing that release() does.
MarkReleasing(c) ==
  /\ pc[c] = "mark" /\ singleton_lock = "free"
  /\ singleton_releasing' = TRUE
  /\ Goto(c, "drop")
  /\ UNCHANGED <<singleton, singleton_lock, made, refs, stage, device, workers, hardware>>

\* The pointer of a client goes out of scope.
Drop(c) ==
  LET o == hardware[c] IN
  /\ pc[c] = "drop"
  /\ refs' = [refs EXCEPT ![o] = @ \ {c}]
  /\ IF refs'[o] = {} THEN Goto(c, "destroy") /\ UNCHANGED hardware
     ELSE Goto(c, "idle") /\ hardware' = [hardware EXCEPT ![c] = 0]
  /\ UNCHANGED <<global, singleton_lock, made, stage, device, workers>>

\* A mutant: the destructor leaves singleton_releasing set.
DestroyKeeps(o) ==
  /\ singleton_lock = "free" /\ singleton' = 0
  /\ stage' = [stage EXCEPT ![o] = "dead"]
  /\ UNCHANGED <<singleton_releasing, singleton_lock, made, refs, device, served>>

\* ~QualcommCameraHardware() clears the singleton whatever it points to.
Destroy(o) ==
  /\ singleton_lock = "free"
  /\ singleton' = 0 /\ singleton_releasing' = FALSE
  /\ stage' = [stage EXCEPT ![o] = "dead"]
  /\ UNCHANGED <<singleton_lock, made, refs, device, served>>

ClientDestroys(c) ==
  /\ pc[c] = "destroy" /\ Destroy(hardware[c])
  /\ Goto(c, "idle") /\ hardware' = [hardware EXCEPT ![c] = 0]
  /\ UNCHANGED worker

WorkerDestroys(o) ==
  /\ worker[o] = "destroys" /\ Destroy(served[o])
  /\ worker' = [worker EXCEPT ![o] = "gone"]
  /\ UNCHANGED <<pc, hardware>>

-----------------------------------------------------------------------------

ClientStep(c) ==
  \/ WaitRelease(c) \/ ReturnExisting(c) \/ NoRpc(c) \/ Construct(c)
  \/ LoadLibrary(c) \/ Join(c) \/ Started(c)
  \/ Release(c) \/ MarkReleasing(c) \/ Drop(c) \/ ClientDestroys(c)

ObjectStep(o) ==
  OpenCameraFd(o) \/ GetInstance(o) \/ WorkerEnds(o) \/ WorkerDestroys(o)

Next ==
  \/ \E c \in Clients : Enter(c) \/ CreateWorker(c) \/ ClientStep(c)
  \/ \E o \in Objects : ObjectStep(o)

Spec == Init /\ [][Next]_vars

TypeOK ==
  /\ singleton \in 0..MaxObjects /\ singleton_releasing \in BOOLEAN
  /\ singleton_lock \in Clients \union {"free"} /\ made \in 0..MaxObjects
  /\ refs \in [Objects -> SUBSET Holders]
  /\ stage \in [Objects -> {"none", "new", "started", "released", "dead"}]
  /\ mCameraControlFd \in [Objects -> -1..MaxObjects] /\ camerafd \in -1..MaxObjects
  /\ opener \in [Objects -> {"none", "running", "done"}]
  /\ worker \in [Objects -> {"none", "created", "running", "destroys", "gone"}]
  /\ served \in [Objects -> 0..MaxObjects]
  /\ pc \in [Clients -> {"idle", "waiting", "check", "dlopen", "join", "conf", "has",
                         "mark", "drop", "destroy"}]
  /\ hardware \in [Clients -> 0..MaxObjects]

\* "If the hardware already exists, return a strong pointer to the current
\* object": an object that runs the camera is the one that createInstance()
\* would return, and no second one runs it.
ReturnsTheCurrent ==
  \A o \in Objects : stage[o] = "started" => singleton = o

\* singleton_releasing is set only while a released object awaits its
\* destructor; otherwise every later createInstance() would give up.
ReleasingEnds ==
  singleton_releasing => \E o \in Objects : stage[o] = "released"

\* An object controls the camera by the descriptor that its own thread opened.
OwnDescriptor ==
  \A o \in Objects : stage[o] = "started" => mCameraControlFd[o] = o

\* "If the hardware already exists, return a strong pointer to the current
\* object": at most one object runs the camera, createInstance() returns it, it
\* has the descriptor that its own thread opened, and the destructor lets the
\* next one be made.
OneCamera == ReturnsTheCurrent /\ ReleasingEnds /\ OwnDescriptor
=============================================================================
