---------------------------- MODULE TrainingHooks ----------------------------
(***************************************************************************)
(* hooks/: the PyTorch, transformers and Keras hooks on the scope stack of *)
(* the thread that trains, with the scopes that the user's own code opens  *)
(* between them (ci.scope, ci.epochs, ci.batches, ci.wrap).                *)
(*                                                                         *)
(* A hook runs to its end on that thread, so a hook is one action.  What   *)
(* is in progress between two hooks is kept in frames: the constructs of   *)
(* the training program that are open, which nest, as calls do.            *)
(*                                                                         *)
(* The data_load span of DataLoader.__next__ is opened and closed within   *)
(* one hook on top of the stack, and is not recorded.                      *)
(***************************************************************************)
EXTENDS Naturals, Sequences, FiniteSets, SequencesExt

CONSTANTS Frameworks,    \* the frameworks detect_frameworks finds
          Callbacks,     \* the Trainer or Keras callback objects, one per train or fit
          Cuda,          \* torch.cuda.is_available()
          EpochSteps,    \* torch.epoch_steps
          ReapInterval,  \* _REAP_INTERVAL
          ReapBackstop,  \* _REAP_BACKSTOP
          MaxDepth,      \* MAX_DEPTH
          MaxScopes,     \* bound: scopes opened in a behaviour
          MaxFrames      \* bound: constructs that are open at once, and forwards that nest

None == 0                \* no scope: they are numbered from 1

ASSUME HooksAssumption ==
    /\ EpochSteps \in Nat \ {0} /\ ReapInterval \in Nat \ {0} /\ ReapBackstop \in Nat
    /\ Frameworks \subseteq {"torch", "transformers", "tensorflow"} /\ Cuda \in BOOLEAN
    /\ MaxDepth \in Nat /\ MaxScopes \in Nat /\ MaxFrames \in Nat

VARIABLES
    sc,        \* the scope stack: what is on it, every scope opened so far, and (history)
               \* those that the exit of a user scope, or a callback, took off unasked
    hooked,    \* the frameworks whose handles are installed
    owned,     \* context.owned_scopes: who owns "epoch" and "step", or "none"
    torch,     \* what the closures of the torch hook keep
    cb,        \* per callback: its framework, scopes and claims, and the phase of its run
    frames     \* the constructs of the program that are open, innermost last

vars == <<sc, hooked, owned, torch, cb, frames>>

Root == [kind |-> "session", by |-> "user", within |-> None, ended |-> FALSE, emitted |-> 0]

Init ==
    /\ sc     = [stack |-> <<1>>, all |-> <<Root>>, stolen |-> {}, swept |-> {}]
    /\ hooked = {}
    /\ owned  = [n \in {"epoch", "step"} |-> "none"]
    /\ torch  = [epoch |-> None, step |-> None, steps |-> 0, dl |-> FALSE, depth |-> 0,
                 fwd |-> None, items |-> {}, ops |-> 0, iter |-> FALSE, off |-> FALSE]
    /\ cb \in [Callbacks -> {[of |-> f, epoch |-> None, step |-> None, claimed |-> {}, phase |-> "new", raised |-> FALSE] :
                                f \in Frameworks \ {"torch"}}]
    /\ frames = <<>>

-------------------------------------------------------------------------------
(* The scope stack, as functions of the record w it is in (sc).  What push   *)
(* returns is the number of a scope, or None when the push is refused.       *)

Top(w) == IF w.stack = <<>> THEN None ELSE Last(w.stack)

Fits(w) == Len(w.stack) < MaxDepth

Push(w, kind, by) ==
    IF ~Fits(w) THEN w
    ELSE [w EXCEPT !.stack = Append(@, Len(w.all) + 1),
                   !.all = Append(@, [kind |-> kind, by |-> by, within |-> torch.epoch,
                                      ended |-> FALSE, emitted |-> 0])]

Pushed(w) == IF Fits(w) THEN Len(w.all) + 1 ELSE None

Emitted(r) == [r EXCEPT !.emitted = @ + 1]

\* end_ns is set and the scope is appended to the deque, unless it was ended before.
ClosedAll(w, S) == [w EXCEPT !.all = [i \in DOMAIN w.all |->
    IF i \in S /\ ~w.all[i].ended THEN Emitted([w.all[i] EXCEPT !.ended = TRUE]) ELSE w.all[i]]]

Closed(w, s) == ClosedAll(w, {s})

Popped(w) == IF w.stack = <<>> THEN w ELSE Closed([w EXCEPT !.stack = Front(@)], Top(w))

Place(w, s) == CHOOSE i \in DOMAIN w.stack : w.stack[i] = s

OffStack(w, s) ==
    IF Contains(w.stack, s) THEN [w EXCEPT !.stack = RemoveAt(@, Place(w, s))] ELSE w

CloseAndRemove(w, s) == Closed(OffStack(w, s), s)

FinalizeDeferred(w, s) ==
    LET v == OffStack(w, s) IN [v EXCEPT !.all[s].ended = TRUE]

EmitClosed(w, S) == [w EXCEPT !.all = [i \in DOMAIN w.all |->
    IF i \in S THEN Emitted(w.all[i]) ELSE w.all[i]]]

-------------------------------------------------------------------------------
(* The PyTorch hook, as functions of x, the stack x.w and the closures x.t.  *)

X == [w |-> sc, t |-> torch]

Becomes(x) == sc' = x.w /\ torch' = x.t

SkipEpoch == owned["epoch"] # "none"
SkipStep  == owned["step"] # "none"

\* _close: only a scope on top is taken off the stack.
Close(w, s) == IF s = None THEN w ELSE IF Top(w) = s THEN Popped(w) ELSE Closed(w, s)

\* A pair whose events are done, or fail to say so, is emitted; force waits for all of them.
DrainCuda(x, force) ==
    LET out == {i \in x.t.items : x.w.all[i.span].ended /\ (force \/ i.ready)}
    IN  [w |-> EmitClosed(x.w, {i.span : i \in out}), t |-> [x.t EXCEPT !.items = @ \ out]]

ShouldReap(t) == t.ops = 0 \/ Cardinality(t.items) >= ReapBackstop

MaybeReap(x) ==
    LET y == [x EXCEPT !.t.ops = (@ + 1) % ReapInterval]
    IN  IF ~Cuda THEN x
        ELSE IF ShouldReap(y.t) THEN DrainCuda(y, Cardinality(y.t.items) >= ReapBackstop) ELSE y

\* Faulty: closes the span whose pair it has just queued.
CloseOrDeferBoth(x, s, timed) ==
    MaybeReap([w |-> Close(x.w, s),
               t |-> IF s = None \/ ~timed THEN x.t
                     ELSE [x.t EXCEPT !.items = @ \cup {[span |-> s, ready |-> FALSE]}]])

\* timed: both CUDA events were recorded.
CloseOrDefer(x, s, timed) ==
    MaybeReap(IF s = None \/ ~timed THEN [x EXCEPT !.w = Close(@, s)]
              ELSE [w |-> FinalizeDeferred(x.w, s),
                    t |-> [x.t EXCEPT !.items = @ \cup {[span |-> s, ready |-> FALSE]}]])

CloseStep(x) == [w |-> Close(x.w, x.t.step), t |-> [x.t EXCEPT !.step = None]]

\* Faulty: leaves an epoch open that has a user scope above it.
CloseEpochOnTop(x) == IF Top(x.w) = x.t.epoch THEN [x EXCEPT !.w = Popped(@)] ELSE x

CloseEpoch(x) == [x EXCEPT !.w = IF x.t.epoch = None THEN @ ELSE CloseAndRemove(@, x.t.epoch)]

\* Faulty: leaves the step of a loop that only evaluates open.
RotateEpochKeepingStep(x) ==
    LET y == CloseEpoch(DrainCuda(x, TRUE))
    IN  [w |-> Push(y.w, "epoch", "torch"),
         t |-> [y.t EXCEPT !.epoch = Pushed(y.w), !.steps = 0]]

RotateEpoch(x) ==
    LET y == CloseEpoch(DrainCuda(IF SkipStep THEN x ELSE CloseStep(x), TRUE))
    IN  [w |-> Push(y.w, "epoch", "torch"),
         t |-> [y.t EXCEPT !.epoch = Pushed(y.w), !.steps = 0]]

-------------------------------------------------------------------------------
(* What the program does: its own scopes, and the calls that are hooked *)

InOp == \E i \in DOMAIN frames : frames[i].what \in {"forward", "backward", "optimizer_step"}

Room == Len(sc.all) < MaxScopes /\ Len(frames) < MaxFrames

Enter(what, s) == frames' = Append(frames, [what |-> what, scope |-> s])

Innermost(what) == frames # <<>> /\ Last(frames).what = what

Leave == frames' = Front(frames)

\* _ScopeCM.__enter__, the loops of ci.epochs and ci.batches, a method of ci.wrap.
UserEnter ==
    /\ Room
    /\ sc' = Push(sc, "user", "user")
    /\ Enter("user", Pushed(sc))
    /\ UNCHANGED <<hooked, owned, torch, cb>>

\* They pop the stack, whatever is on top.
UserExit ==
    /\ Innermost("user")
    /\ LET s == Last(frames).scope IN
       sc' = IF s = None THEN sc
             ELSE [Popped(sc) EXCEPT !.stolen = @ \cup ({Top(sc)} \ {s, None})]
    /\ Leave
    /\ UNCHANGED <<hooked, owned, torch, cb>>

\* install_hooks: an installer that raises is skipped.
Install ==
    /\ hooked = {} /\ ~torch.off
    /\ \E F \in SUBSET Frameworks : F # {} /\ hooked' = F
    /\ UNCHANGED <<sc, owned, torch, cb, frames>>

\* DataLoader.__iter__
DlIter ==
    /\ "torch" \in hooked /\ ~InOp /\ Room
    /\ LET x == [X EXCEPT !.t.iter = TRUE]
       IN  Becomes(IF SkipEpoch THEN x ELSE RotateEpoch([x EXCEPT !.t.dl = TRUE]))
    /\ UNCHANGED <<hooked, owned, cb, frames>>

\* __next__ of an iterator that was wrapped, which it still is after the uninstall.
DlNext ==
    /\ torch.iter /\ ~InOp /\ Room
    /\ ~SkipStep /\ torch.step = None
    /\ Becomes([w |-> Push(sc, "step", "torch"), t |-> [torch EXCEPT !.step = Pushed(sc)]])
    /\ UNCHANGED <<hooked, owned, cb, frames>>

ForwardPre ==
    /\ "torch" \in hooked /\ Room /\ torch.depth < MaxFrames
    /\ Becomes(IF torch.depth > 0 THEN [X EXCEPT !.t.depth = @ + 1]
               ELSE [w |-> Push(sc, "forward", "torch"),
                     t |-> [torch EXCEPT !.depth = 1, !.fwd = Pushed(sc)]])
    /\ Enter("forward", None)
    /\ UNCHANGED <<hooked, owned, cb>>

ForwardPost(timed) ==
    /\ Innermost("forward")
    /\ Becomes(IF torch.depth # 1 THEN [X EXCEPT !.t.depth = @ - 1]
               ELSE LET y == CloseOrDefer(X, torch.fwd, timed)
                    IN  [y EXCEPT !.t.depth = 0, !.t.fwd = None])
    /\ Leave
    /\ UNCHANGED <<hooked, owned, cb>>

\* A forward or an optimizer step that raises never reaches its post hook.
Raise ==
    /\ Innermost("forward") \/ Innermost("optimizer_step")
    /\ Leave
    /\ UNCHANGED <<sc, hooked, owned, torch, cb>>

\* Tensor.backward and autograd.backward, which opens nothing inside of the former.
BackwardBegin ==
    /\ "torch" \in hooked /\ ~InOp /\ Room
    /\ sc' = Push(sc, "backward", "torch")
    /\ Enter("backward", Pushed(sc))
    /\ UNCHANGED <<hooked, owned, torch, cb>>

BackwardEnd(timed) ==
    /\ Innermost("backward")
    /\ Becomes(CloseOrDefer(X, Last(frames).scope, timed))
    /\ Leave
    /\ UNCHANGED <<hooked, owned, cb>>

OptimizerPre ==
    /\ "torch" \in hooked /\ ~InOp /\ Room
    /\ sc' = Push(sc, "optimizer_step", "torch")
    /\ Enter("optimizer_step", Pushed(sc))
    /\ UNCHANGED <<hooked, owned, torch, cb>>

OptimizerPost(timed) ==
    /\ Innermost("optimizer_step")
    /\ LET y == CloseOrDefer(X, Last(frames).scope, timed)
           z == IF SkipStep THEN y ELSE CloseStep(y)
           n == [z EXCEPT !.t.steps = @ + 1]
       IN  Becomes(IF SkipEpoch \/ torch.dl THEN z
                   ELSE IF n.t.steps >= EpochSteps THEN RotateEpoch(n) ELSE n)
    /\ Leave
    /\ UNCHANGED <<hooked, owned, cb>>

\* The device reaches an end event.
EventDone ==
    /\ \E i \in torch.items : /\ ~i.ready
                              /\ torch' = [torch EXCEPT !.items = (@ \ {i}) \cup {[i EXCEPT !.ready = TRUE]}]
    /\ UNCHANGED <<sc, hooked, owned, cb, frames>>

\* Faulty: drops the pairs that are not ready.
UninstallUnforced ==
    /\ hooked # {} /\ ~InOp
    /\ hooked' = {}
    /\ IF "torch" \notin hooked THEN Becomes([X EXCEPT !.t.off = TRUE])
       ELSE LET y == CloseEpoch(CloseStep(DrainCuda(X, FALSE)))
            IN  Becomes([y EXCEPT !.t.epoch = None, !.t.off = TRUE])
    /\ UNCHANGED <<owned, cb, frames>>

\* TorchHookHandle.uninstall; the other handles only restore what they patched.
Uninstall ==
    /\ hooked # {} /\ ~InOp
    /\ hooked' = {}
    /\ IF "torch" \notin hooked THEN Becomes([X EXCEPT !.t.off = TRUE])
       ELSE LET y == CloseEpoch(CloseStep(DrainCuda(X, TRUE)))
            IN  Becomes([y EXCEPT !.t.epoch = None, !.t.off = TRUE])
    /\ UNCHANGED <<owned, cb, frames>>

-------------------------------------------------------------------------------
(* The transformers and Keras callbacks *)

\* _close of the transformers hook takes off what lies above the scope, and
\* everything there is if the scope is not on the stack.
CloseThrough(w, s) ==
    IF s = None THEN w
    ELSE LET on  == Contains(w.stack, s)
             k   == IF on THEN Place(w, s) ELSE 1
             off == {w.stack[i] : i \in k..Len(w.stack)}
         IN  ClosedAll([w EXCEPT !.stack = SubSeq(@, 1, k - 1),
                                 !.swept = IF on THEN @ ELSE @ \cup off], off \cup {s})

CallbackClose(c, w, s) == IF cb[c].of = "transformers" THEN CloseThrough(w, s) ELSE Close(w, s)

Drop(c) == CallbackClose(c, CallbackClose(c, sc, cb[c].step), cb[c].epoch)

Claimable(c) == IF cb[c].of = "transformers" THEN {"epoch", "step"} ELSE {"epoch"}

InRun(c, phase) == /\ frames # <<>> /\ Last(frames) = [what |-> "run", scope |-> c]
                   /\ cb[c].phase = phase

\* A retry on the same Trainer is a second train_begin of its callback.  No run
\* is started inside of another.
TrainBegin(c) ==
    /\ IF cb[c].phase = "new" THEN cb[c].of \in hooked
       ELSE cb[c].of = "transformers" /\ cb[c].phase = "idle"
    /\ Len(frames) < MaxFrames /\ ~InOp
    /\ \A i \in DOMAIN frames : frames[i].what # "run"
    /\ LET free == {n \in Claimable(c) : owned[n] = "none"} IN
       /\ owned' = [n \in DOMAIN owned |-> IF n \in free THEN cb[c].of ELSE owned[n]]
       /\ sc' = Drop(c)
       /\ cb' = [cb EXCEPT ![c] = [@ EXCEPT !.epoch = None, !.step = None, !.claimed = free, !.phase = "train"]]
    /\ Enter("run", c)
    /\ UNCHANGED <<hooked, torch>>

EpochBegin(c) ==
    /\ InRun(c, "train") /\ Room
    /\ sc' = Push(sc, "epoch", cb[c].of)
    /\ cb' = [cb EXCEPT ![c].epoch = Pushed(sc), ![c].phase = "epoch"]
    /\ UNCHANGED <<hooked, owned, torch, frames>>

StepBegin(c) ==
    /\ InRun(c, "epoch") /\ Room
    /\ sc' = Push(sc, "step", cb[c].of)
    /\ cb' = [cb EXCEPT ![c].step = Pushed(sc), ![c].phase = "step"]
    /\ UNCHANGED <<hooked, owned, torch, frames>>

StepEnd(c) ==
    /\ InRun(c, "step")
    /\ sc' = CallbackClose(c, sc, cb[c].step)
    /\ cb' = [cb EXCEPT ![c].step = None, ![c].phase = "epoch"]
    /\ UNCHANGED <<hooked, owned, torch, frames>>

EpochEnd(c) ==
    /\ InRun(c, "epoch")
    /\ sc' = CallbackClose(c, sc, cb[c].epoch)
    /\ cb' = [cb EXCEPT ![c].epoch = None, ![c].phase = "train"]
    /\ UNCHANGED <<hooked, owned, torch, frames>>

\* Faulty: forgets the claim on the steps.
TrainEndEpochOnly(c) ==
    /\ InRun(c, "train")
    /\ owned' = [owned EXCEPT !["epoch"] = IF @ = cb[c].of THEN "none" ELSE @]
    /\ cb' = [cb EXCEPT ![c] = [@ EXCEPT !.claimed = {}, !.phase = "idle"]]
    /\ Leave
    /\ UNCHANGED <<sc, hooked, torch>>

TrainEnd(c) ==
    /\ InRun(c, "train")
    /\ owned' = [n \in DOMAIN owned |->
                   IF n \in cb[c].claimed /\ owned[n] = cb[c].of THEN "none" ELSE owned[n]]
    /\ cb' = [cb EXCEPT ![c] = [@ EXCEPT !.claimed = {}, !.phase = "idle"]]
    /\ Leave
    /\ UNCHANGED <<sc, hooked, torch>>

\* train() raises: no callback is told.
TrainRaises(c) ==
    /\ \E p \in {"train", "epoch", "step"} : InRun(c, p)
    /\ cb' = [cb EXCEPT ![c] = [@ EXCEPT !.phase = "idle", !.raised = TRUE]]
    /\ Leave
    /\ UNCHANGED <<sc, hooked, owned, torch>>

-------------------------------------------------------------------------------
TorchStep ==
    \/ DlIter \/ DlNext \/ ForwardPre \/ Raise \/ BackwardBegin \/ OptimizerPre \/ EventDone
    \/ \E timed \in {FALSE, Cuda} : ForwardPost(timed) \/ BackwardEnd(timed) \/ OptimizerPost(timed)

CallbackStep(c) ==
    \/ TrainBegin(c) \/ EpochBegin(c) \/ StepBegin(c)
    \/ StepEnd(c) \/ EpochEnd(c) \/ TrainEnd(c) \/ TrainRaises(c)

Next == \/ Install \/ Uninstall \/ UserEnter \/ UserExit \/ TorchStep
        \/ \E c \in Callbacks : CallbackStep(c)

Spec == Init /\ [][Next]_vars

-------------------------------------------------------------------------------
(* Properties *)

Scopes == DOMAIN sc.all
Held   == {i.span : i \in torch.items}

\* A scope that has ended is in the deque once, or is held for its GPU time and
\* not in the deque yet: _drain_cuda and _close never both emit it, nor neither.
EmittedOrHeld ==
    \A s \in Scopes : sc.all[s].emitted = IF sc.all[s].ended /\ s \notin Held THEN 1 ELSE 0

\* An epoch or a step that the torch hook has opened and not closed is the one
\* its state names: a rotation leaves none behind.
TorchScopesTracked ==
    \A s \in Scopes : ~sc.all[s].ended /\ sc.all[s].by = "torch" =>
        /\ sc.all[s].kind = "epoch" => torch.epoch = s
        /\ sc.all[s].kind = "step" => torch.step = s

\* The implicit step never outlives the epoch it was opened in, although a loop
\* that only evaluates never closes it.
StepWithinEpoch ==
    torch.step # None => sc.all[torch.step].within = torch.epoch

\* A span held for its GPU time is emitted before the epoch it belongs to ends,
\* unless that epoch was taken off the stack unasked: by the exit of a user scope, or
\* by the callback of a run that is tried again and whose scope is off the stack.
HeldWithinEpoch ==
    \A s \in Held : LET e == sc.all[s].within
                    IN  e # None => ~sc.all[e].ended \/ e \in sc.stolen \cup sc.swept

\* What belongs to an epoch ends with it.
EpochsWhole == StepWithinEpoch /\ HeldWithinEpoch

\* The torch hook yields to a framework only while a run of it is under way, or
\* has raised.
ClaimsOfRuns ==
    \A n \in DOMAIN owned : owned[n] # "none" =>
        \E c \in Callbacks : /\ cb[c].of = owned[n]
                             /\ cb[c].phase \notin {"new", "idle"} \/ cb[c].raised

\* After the uninstall nothing is held, and what torch has left open is the step
\* of a loop that goes on, or a call that raised.
UninstallDrains ==
    torch.off => /\ torch.items = {}
                 /\ \A s \in Scopes : sc.all[s].by = "torch" /\ sc.all[s].kind \in {"epoch", "backward"}
                                      => sc.all[s].ended

\* A user scope is closed by its own exit: the code pops whatever is on top.
UserExitClosesItsOwn == sc.stolen = {}
==============================================================================
