-------------------------- MODULE ImageLayoutProofs --------------------------
(***************************************************************************)
(* Three results, for any images, executors and commits.                   *)
(*                                                                         *)
(* Submissions that touch the same image are ordered.  The caller waits    *)
(* for what it shares when its commit begins; the proof is that this still *)
(* holds at the submission, with everything others submit and the GPU      *)
(* completes in between, and that the chain orders the graphics commits    *)
(* that did not wait.                                                      *)
(*                                                                         *)
(* The layouts that were recorded are the layouts the GPU meets.  Every    *)
(* image has a sequence f of layouts, f[0] the one it is in and f[n] the   *)
(* one the n-th submission leaves it in; each submission in flight, and    *)
(* each command buffer under way, takes the image from one to the next.    *)
(* That submissions of an image execute in their order is the first        *)
(* result.                                                                 *)
(*                                                                         *)
(* The image of the swapchain can be presented whenever no blit of it is   *)
(* in flight.                                                              *)
(***************************************************************************)
EXTENDS ImageLayout, FiniteSetTheorems, SequenceTheorems, TLAPS

\* The submissions that the next one of an executor waits for.
Covered(e) == Before(waits[e] \cup {last[e]})

\* The images a commit under way touches.
Listed(e) == TouchedBy(commandList[e])

\* It is one of those the chain orders.
Graphics(e) == IsGraphics(commandList[e])

\* An executor has commands exactly while its commit is under way, the displayer only its blit.
Commits ==
    /\ pc \in [Everyone -> {"idle", "chain", "record"}]
    /\ commandList \in [Everyone -> AppList \cup {<<BlitCommand>>, << >>}]
    /\ \A e \in Executor : commandList[e] # <<BlitCommand>>
    /\ commandList[Display] \in {<<BlitCommand>>, << >>}
    /\ \A e \in Everyone : pc[e] = "idle" => commandList[e] = << >>
    /\ waits \in [Everyone -> SUBSET Nat]
    /\ last \in [Everyone -> Nat]

\* Submissions are numbered in the order of submission.
Numbered ==
    /\ issued \in Nat /\ chain \in 0 .. issued
    /\ \A s \in inFlight : s.id \in 1 .. issued
    /\ \A s, t \in inFlight : s.id = t.id => s = t

\* Every graphics submission in flight is before the last one of the chain; who holds
\* the chain mutex waits for that one, and no other graphics commit is recording.
Chained ==
    /\ \A s \in inFlight : s.graphics => s.id \in Before({chain})
    /\ \A e \in Everyone :
           /\ chainMutex = e => pc[e] = "record" /\ ChainWait \subseteq waits[e]
           /\ pc[e] = "chain" => Graphics(e)
           /\ pc[e] = "record" => (Graphics(e) <=> chainMutex = e)

\* A commit under way is ordered with what is in flight, or the chain will order it.
Awaited ==
    \A e \in Everyone : pc[e] # "idle" =>
        \A s \in inFlight :
            s.images \cap Listed(e) = {} \/ s.id \in Covered(e) \/ (s.graphics /\ Graphics(e))

\* Two commits under way share no image, or the chain will order them.
Apart ==
    \A e, f \in Everyone : e # f /\ pc[e] # "idle" /\ pc[f] # "idle" =>
        Listed(e) \cap Listed(f) = {} \/ (Graphics(e) /\ Graphics(f))

\* What a submission waits for, and what will make it wait.
Order == Chained /\ Awaited /\ Apart /\ OrderedUse

\* The inductive invariant of OrderedUse.
IInv == Commits /\ Numbered /\ Order

-----------------------------------------------------------------------------
(***************************************************************************)
(* What submissions wait for                                               *)
(***************************************************************************)

\* More submissions and more waits cover more.
LEMMA CoveredGrows ==
    ASSUME NEW e, inFlight \subseteq inFlight',
           waits[e] \subseteq waits'[e], last'[e] = last[e],
           NEW x, x \in Covered(e)
    PROVE  x \in Covered(e)'
BY DEF Covered, Before, Flying

\* A submission that completes had nothing to wait for: what it ordered is done.
LEMMA ExecuteCovers ==
    ASSUME Numbered, NEW s \in inFlight, Execute(s), NEW t \in inFlight', NEW e,
           t.id \in Covered(e)
    PROVE  t.id \in Covered(e)'
<1>1. s.after \cap Flying = {} /\ inFlight' = inFlight \ {s} /\ t \in inFlight
      /\ UNCHANGED <<waits, last>>
    BY DEF Execute, Ready, orderVars
<1>2. t.id \in Flying /\ t.id \notin s.after
    BY <1>1 DEF Flying
<1>3. CASE t.id \in waits[e] \/ t.id = last[e]
    BY <1>1, <1>3 DEF Covered, Before, Flying
<1>4. CASE ~(t.id \in waits[e] \/ t.id = last[e])
    <2>1. PICK u \in inFlight : (u.id \in waits[e] \/ u.id = last[e]) /\ t.id \in u.after
        BY <1>4 DEF Covered, Before, Flying
    <2>2. u \in inFlight'
        BY <1>1, <1>2, <2>1
    <2> QED BY <1>1, <2>1, <2>2 DEF Covered, Before, Flying
<1> QED BY <1>3, <1>4

\* An application lists its own commands, and never a blit.
LEMMA AppListed ==
    ASSUME NEW list \in AppList \cup {<< >>}, NEW n \in DOMAIN list
    PROVE  list[n] \in AppCommand /\ list[n].kind # "blit"
<1>1. list[n] \in AppCommand
    BY DEF AppList
<1>2. \A c \in AppCommand : c.kind # "blit"
    BY DEF AppCommand, CopyCommand, ShadeCommand, DrawCommand, Command
<1> QED BY <1>1, <1>2

\* What a commit touches does not change while it is under way.
LEMMA ListedSame ==
    ASSUME Commits, NEW e \in Everyone, commandList'[e] = commandList[e],
           \/ renderTarget' = renderTarget /\ FramebufferOf' = FramebufferOf
           \/ \A n \in DOMAIN commandList[e] : commandList[e][n].kind # "draw",
           displayed' = displayed \/ commandList[e] # <<BlitCommand>>
    PROVE  Listed(e)' = Listed(e) /\ Graphics(e)' = Graphics(e)
<1>1. ASSUME NEW n \in DOMAIN commandList[e]
      PROVE  Touches(commandList[e][n])' = Touches(commandList[e][n])
    <2>1. CASE commandList[e] = <<BlitCommand>>
        <3>1. commandList[e][n].kind = "blit" /\ displayed' = displayed
            BY <2>1 DEF BlitCommand, Command
        <3> QED BY <3>1 DEF Touches
    <2>2. CASE commandList[e] # <<BlitCommand>>
        <3>1. commandList[e] \in AppList \cup {<< >>}
            BY <2>2 DEF Commits
        <3>2. commandList[e][n].kind # "blit"
            BY <3>1, AppListed
        <3>3. CASE commandList[e][n].kind = "draw"
            BY <3>3 DEF Touches
        <3>4. CASE commandList[e][n].kind # "draw"
            BY <3>2, <3>4 DEF Touches
        <3> QED BY <3>3, <3>4
    <2> QED BY <2>1, <2>2
<1> QED BY <1>1 DEF Listed, TouchedBy, Graphics, IsGraphics

-----------------------------------------------------------------------------
(***************************************************************************)
(* Commits and numbers                                                     *)
(***************************************************************************)

\* So no list of it is that of a frame.
LEMMA NotBlit == \A list \in AppList : list # <<BlitCommand>>
<1>1. ASSUME NEW list \in AppList, list = <<BlitCommand>> PROVE FALSE
    <2>1. 1 \in DOMAIN list /\ list[1].kind = "blit"
        BY <1>1 DEF BlitCommand, Command
    <2> QED BY <2>1, AppListed
<1> QED BY <1>1

\* No step breaks Commits.
LEMMA CommitsStep ==
    ASSUME Commits, Numbered, [Next]_vars
    PROVE  Commits'
<1> USE ExecutorAssumption DEF cpuVars, pipeVars, commitVars, orderVars, Everyone
<1>same. UNCHANGED <<pc, commandList, waits, last>> => Commits'
    BY DEF Commits
<1>1. ASSUME NEW i \in Target, SetTarget(i) PROVE Commits'
    BY <1>1, <1>same DEF SetTarget
<1>2. ASSUME NEW e \in Everyone, NEW f \in Executor, Wait(e, f) PROVE Commits'
    BY <1>2 DEF Wait, Commits
<1>3. ASSUME NEW e \in Executor, BeginCommit(e) PROVE Commits'
    <2>1. PICK list \in AppList : Start(e, list)
        BY <1>3 DEF BeginCommit
    <2>2. /\ commandList' = [commandList EXCEPT ![e] = list]
          /\ pc' = [pc EXCEPT ![e] = IF IsGraphics(list) THEN "chain" ELSE "record"]
          /\ UNCHANGED <<waits, last>>
        BY <2>1 DEF Start
    <2> QED BY <2>2, NotBlit DEF Commits
<1>4. ASSUME NEW i \in Image, BeginDisplay(i) PROVE Commits'
    <2>1. /\ commandList' = [commandList EXCEPT ![Display] = <<BlitCommand>>]
          /\ pc' = [pc EXCEPT ![Display] = IF IsGraphics(<<BlitCommand>>) THEN "chain" ELSE "record"]
          /\ UNCHANGED <<waits, last>>
        BY <1>4 DEF BeginDisplay, Start
    <2> QED BY <2>1 DEF Commits
<1>5. ASSUME RecreateSwapChain PROVE Commits'
    BY <1>5, <1>same DEF RecreateSwapChain
<1>6. ASSUME NEW e \in Everyone, LockChain(e) PROVE Commits'
    <2>1. ChainWait \subseteq Nat
        BY DEF ChainWait, Numbered
    <2> QED BY <1>6, <2>1 DEF LockChain, Commits
<1>7. ASSUME NEW e \in Everyone, Record(e) PROVE Commits'
    BY <1>7, <1>same DEF Record
<1>8. ASSUME NEW e \in Everyone, Submit(e) PROVE Commits'
    <2>1. /\ pc' = [pc EXCEPT ![e] = "idle"] /\ commandList' = [commandList EXCEPT ![e] = << >>]
          /\ waits' = [waits EXCEPT ![e] = {}] /\ last' = [last EXCEPT ![e] = issued + 1]
        BY <1>8 DEF Submit, Signalled
    <2>2. issued + 1 \in Nat
        BY DEF Numbered
    <2>3. << >> # <<BlitCommand>>
        OBVIOUS
    <2> QED BY <2>1, <2>2, <2>3 DEF Commits
<1>9. ASSUME GpuStep PROVE Commits'
    BY <1>9, <1>same DEF GpuStep, Execute
<1>10. ASSUME UNCHANGED vars PROVE Commits'
    BY <1>10, <1>same DEF vars
<1> QED BY <1>1, <1>2, <1>3, <1>4, <1>5, <1>6, <1>7, <1>8, <1>9, <1>10 DEF Next

\* No step breaks Numbered.
LEMMA NumberedStep ==
    ASSUME Commits, Numbered, [Next]_vars
    PROVE  Numbered'
<1> USE DEF cpuVars, pipeVars, commitVars, orderVars
<1>same. UNCHANGED <<issued, chain, inFlight>> => Numbered'
    BY DEF Numbered
<1>1. ASSUME NEW e \in Everyone, Submit(e) PROVE Numbered'
    <2>1. /\ issued' = issued + 1 /\ inFlight' = inFlight \cup {Submission(e)}
          /\ Submission(e).id = issued + 1 /\ chain' \in {chain, issued + 1}
        BY <1>1 DEF Submit, Submission, Signalled
    <2> QED BY <2>1 DEF Numbered
<1>2. ASSUME GpuStep PROVE Numbered'
    <2>1. inFlight' \subseteq inFlight /\ UNCHANGED <<issued, chain>>
        BY <1>2 DEF GpuStep, Execute
    <2> QED BY <2>1 DEF Numbered
<1>3. ASSUME NEW e \in Everyone, LockChain(e) \/ Record(e) \/ \E f \in Executor : Wait(e, f)
      PROVE  Numbered'
    BY <1>3, <1>same DEF LockChain, Record, Wait
<1>4. ASSUME \/ \E i \in Target : SetTarget(i)
             \/ \E e \in Executor : BeginCommit(e)
             \/ \E i \in Image : BeginDisplay(i)
             \/ RecreateSwapChain
      PROVE  Numbered'
    BY <1>4, <1>same DEF SetTarget, BeginCommit, BeginDisplay, RecreateSwapChain, Start
<1>5. ASSUME UNCHANGED vars PROVE Numbered'
    BY <1>5, <1>same DEF vars
<1> QED BY <1>1, <1>2, <1>3, <1>4, <1>5 DEF Next

-----------------------------------------------------------------------------
(***************************************************************************)
(* Order                                                                   *)
(***************************************************************************)

\* A step that starts, locks and submits nothing.
LEMMA OrderSame ==
    ASSUME Order, UNCHANGED <<pc, chainMutex, chain, inFlight, last>>,
           \A e \in Everyone : /\ waits[e] \subseteq waits'[e]
                              /\ Listed(e)' = Listed(e) /\ Graphics(e)' = Graphics(e)
    PROVE  Order'
<1>1. Chained'
    BY DEF Order, Chained, ChainWait, Before, Flying
<1>2. Awaited'
    <2>1. \A e \in Everyone : \A x : x \in Covered(e) => x \in Covered(e)'
        BY CoveredGrows
    <2> QED BY <2>1 DEF Order, Awaited
<1>3. Apart' /\ OrderedUse'
    BY DEF Order, Apart, OrderedUse
<1> QED BY <1>1, <1>2, <1>3 DEF Order

\* A commit begins: what it touches is synchronised with everything under way.
LEMMA OrderBegin ==
    ASSUME Order, Commits, NEW e \in Everyone,
           pc[e] = "idle", pc'[e] = (IF Graphics(e)' THEN "chain" ELSE "record"),
           \A f \in Everyone : f # e => /\ pc'[f] = pc[f]
                                       /\ Listed(f)' = Listed(f) /\ Graphics(f)' = Graphics(f),
           UNCHANGED <<chainMutex, chain, inFlight, waits, last>>,
           \A s \in inFlight : \/ s.images \cap Listed(e)' = {}
                               \/ s.id \in Covered(e)
                               \/ s.graphics /\ Graphics(e)',
           \A f \in Everyone \ {e} : \/ pc[f] = "idle"
                                     \/ Listed(f) \cap Listed(e)' = {}
                                     \/ Graphics(f) /\ Graphics(e)'
    PROVE  Order'
<1>1. Chained'
    <2>1. ASSUME NEW f \in Everyone
          PROVE  /\ chainMutex = f => pc'[f] = "record" /\ ChainWait \subseteq waits[f]
                 /\ pc'[f] = "chain" => Graphics(f)'
                 /\ pc'[f] = "record" => (Graphics(f)' <=> chainMutex = f)
        <3>1. CASE f = e
            <4>1. chainMutex # e
                BY DEF Order, Chained
            <4> QED BY <3>1, <4>1
        <3>2. CASE f # e
            BY <3>2 DEF Order, Chained
        <3> QED BY <3>1, <3>2
    <2> QED BY <2>1 DEF Order, Chained, ChainWait, Before, Flying
<1>2. Awaited'
    <2>1. \A f \in Everyone : \A x : x \in Covered(f) => x \in Covered(f)'
        BY CoveredGrows
    <2>2. ASSUME NEW f \in Everyone, pc'[f] # "idle", NEW s \in inFlight
          PROVE  s.images \cap Listed(f)' = {} \/ s.id \in Covered(f) \/ (s.graphics /\ Graphics(f)')
        <3>1. CASE f = e
            BY <3>1
        <3>2. CASE f # e
            BY <2>2, <3>2 DEF Order, Awaited
        <3> QED BY <3>1, <3>2
    <2> QED BY <2>1, <2>2 DEF Awaited
<1>3. Apart'
    <2>1. ASSUME NEW f \in Everyone, NEW g \in Everyone, f # g, pc'[f] # "idle", pc'[g] # "idle"
          PROVE  Listed(f)' \cap Listed(g)' = {} \/ (Graphics(f)' /\ Graphics(g)')
        <3>1. CASE f # e /\ g # e
            BY <2>1, <3>1 DEF Order, Apart
        <3>2. CASE f = e
            BY <2>1, <3>2
        <3>3. CASE g = e
            BY <2>1, <3>3
        <3> QED BY <3>1, <3>2, <3>3
    <2> QED BY <2>1 DEF Apart
<1>4. OrderedUse'
    BY DEF Order, OrderedUse
<1> QED BY <1>1, <1>2, <1>3, <1>4 DEF Order

\* A graphics commit takes the chain mutex, and waits for the last submission.
LEMMA OrderLock ==
    ASSUME Order, Commits, NEW e \in Everyone, LockChain(e)
    PROVE  Order'
<1> USE ExecutorAssumption DEF Everyone
<1>1. /\ pc[e] = "chain" /\ pc' = [pc EXCEPT ![e] = "record"]
      /\ chainMutex = None /\ chainMutex' = e
      /\ waits' = [waits EXCEPT ![e] = @ \cup ChainWait]
      /\ UNCHANGED <<cpuVars, pipeVars, commandList, last, chain, inFlight>>
    BY DEF LockChain, ChainFree
<1>2. \A f \in Everyone : Listed(f)' = Listed(f) /\ Graphics(f)' = Graphics(f)
    BY <1>1, ListedSame DEF cpuVars, pipeVars, FramebufferOf
<1>3. /\ pc'[e] = "record" /\ \A f \in Everyone : f # e => pc'[f] = pc[f] /\ waits'[f] = waits[f]
      /\ waits'[e] = waits[e] \cup ChainWait
    BY <1>1 DEF Commits
<1>4. Chained'
    <2>1. \A f \in Everyone : pc[f] = "record" => ~Graphics(f)
        BY <1>1 DEF Order, Chained
    <2>2. Graphics(e)
        BY <1>1 DEF Order, Chained
    <2>3. ChainWait' = ChainWait /\ \A x : x \in Before({chain})' <=> x \in Before({chain})
        BY <1>1 DEF ChainWait, Before, Flying
    <2>4. ASSUME NEW f \in Everyone
          PROVE  /\ chainMutex' = f => pc'[f] = "record" /\ ChainWait \subseteq waits'[f]
                 /\ pc'[f] = "chain" => Graphics(f)
                 /\ pc'[f] = "record" => (Graphics(f) <=> chainMutex' = f)
        <3>1. CASE f = e
            BY <1>1, <1>3, <2>2, <3>1
        <3>2. CASE f # e
            BY <1>1, <1>3, <2>1, <3>2 DEF Order, Chained
        <3> QED BY <3>1, <3>2
    <2> QED BY <1>1, <1>2, <2>3, <2>4 DEF Order, Chained
<1>5. Awaited'
    <2>1. \A f \in Everyone : waits[f] \subseteq waits'[f] /\ last'[f] = last[f]
        BY <1>1, <1>3
    <2>2. \A f \in Everyone : \A x : x \in Covered(f) => x \in Covered(f)'
        BY <1>1, <2>1, CoveredGrows
    <2> QED BY <1>1, <1>2, <1>3, <2>2 DEF Order, Awaited
<1>6. Apart' /\ OrderedUse'
    BY <1>1, <1>2, <1>3 DEF Order, Apart, OrderedUse
<1> QED BY <1>4, <1>5, <1>6 DEF Order

\* A submission waits for what its commit was ordered with, and enters the chain.
LEMMA OrderSubmit ==
    ASSUME Order, Commits, Numbered, NEW e \in Everyone, Submit(e)
    PROVE  Order'
<1> USE ExecutorAssumption DEF Everyone
<1> DEFINE new == Submission(e)
<1>1. /\ pc[e] = "record" /\ pc' = [pc EXCEPT ![e] = "idle"]
      /\ inFlight' = inFlight \cup {new}
      /\ last' = [last EXCEPT ![e] = issued + 1] /\ waits' = [waits EXCEPT ![e] = {}]
      /\ chain' = (IF Graphics(e) THEN issued + 1 ELSE chain)
      /\ chainMutex' = (IF chainMutex = e THEN None ELSE chainMutex)
      /\ commandList' = [commandList EXCEPT ![e] = << >>]
      /\ UNCHANGED <<cpuVars, pipeVars>>
    BY DEF Submit, Signalled, Graphics
<1>2. /\ new.id = issued + 1 /\ new.after = Covered(e)
      /\ new.images = Listed(e) /\ new.graphics = Graphics(e)
    BY DEF Submission, Covered, Listed, Graphics
<1>3. /\ pc'[e] = "idle"
      /\ \A f \in Everyone : f # e =>
             /\ pc'[f] = pc[f] /\ waits'[f] = waits[f] /\ last'[f] = last[f]
             /\ commandList'[f] = commandList[f]
    BY <1>1 DEF Commits
<1>4. \A f \in Everyone : f # e => Listed(f)' = Listed(f) /\ Graphics(f)' = Graphics(f)
    BY <1>1, <1>3, ListedSame DEF cpuVars, pipeVars, FramebufferOf
\* By the wait for the last submission of the chain.
<1>5. ASSUME Graphics(e), NEW s \in inFlight, s.graphics PROVE s.id \in Covered(e)
    <2>1. ChainWait \subseteq waits[e]
        BY <1>1, <1>5 DEF Order, Chained
    <2>2. s.id \in Before({chain})
        BY <1>5 DEF Order, Chained
    <2> QED BY <2>1, <2>2 DEF Before, Covered, ChainWait, Flying
<1>6. \A s \in inFlight : s.images \cap new.images # {} => s.id \in new.after
    <2>1. \A s \in inFlight : s.images \cap Listed(e) = {} \/ s.id \in Covered(e) \/ (s.graphics /\ Graphics(e))
        BY <1>1 DEF Order, Awaited
    <2> QED BY <1>2, <1>5, <2>1
<1>7. OrderedUse'
    <2>1. ASSUME NEW s \in inFlight', NEW t \in inFlight', s # t, s.images \cap t.images # {}
          PROVE  s.id \in t.after \/ t.id \in s.after
        <3>1. CASE s \in inFlight /\ t \in inFlight
            BY <2>1, <3>1 DEF Order, OrderedUse
        <3>2. CASE s = new \/ t = new
            BY <1>1, <1>6, <2>1, <3>2
        <3> QED BY <1>1, <3>1, <3>2
    <2> QED BY <2>1 DEF OrderedUse
<1>8. Apart'
    BY <1>3, <1>4 DEF Order, Apart
<1>9. Awaited'
    <2>1. ASSUME NEW f \in Everyone, pc'[f] # "idle", NEW s \in inFlight'
          PROVE  s.images \cap Listed(f)' = {} \/ s.id \in Covered(f)' \/ (s.graphics /\ Graphics(f)')
        <3>1. f # e
            BY <1>3, <2>1
        <3>2. CASE s \in inFlight
            <4>1. s.id \in Covered(f) => s.id \in Covered(f)'
                BY <1>1, <1>3, <3>1, CoveredGrows
            <4> QED BY <1>3, <1>4, <2>1, <3>1, <3>2, <4>1 DEF Order, Awaited
        <3>3. CASE s = new
            <4>1. Listed(e) \cap Listed(f) = {} \/ (Graphics(e) /\ Graphics(f))
                BY <1>1, <1>3, <2>1, <3>1 DEF Order, Apart
            <4> QED BY <1>2, <1>4, <3>1, <3>3, <4>1
        <3> QED BY <1>1, <3>2, <3>3
    <2> QED BY <2>1 DEF Awaited
<1>10. Chained'
    <2>1. ASSUME NEW s \in inFlight', s.graphics PROVE s.id \in Before({chain})'
        <3>1. CASE Graphics(e)
            <4>1. s = new \/ s.id \in new.after
                BY <1>1, <1>2, <1>5, <2>1, <3>1
            <4>2. new \in inFlight' /\ chain' = new.id
                BY <1>1, <1>2, <3>1
            <4> QED BY <2>1, <4>1, <4>2 DEF Before, Flying
        <3>2. CASE ~Graphics(e)
            <4>1. s \in inFlight /\ chain' = chain /\ s.id \in Before({chain})
                BY <1>1, <1>2, <2>1, <3>2 DEF Order, Chained
            <4> QED BY <1>1, <4>1 DEF Before, Flying
        <3> QED BY <3>1, <3>2
    <2>2. ASSUME NEW f \in Everyone
          PROVE  /\ chainMutex' = f => pc'[f] = "record" /\ ChainWait' \subseteq waits'[f]
                 /\ pc'[f] = "chain" => Graphics(f)'
                 /\ pc'[f] = "record" => (Graphics(f)' <=> chainMutex' = f)
        <3>1. CASE f = e
            BY <1>1, <1>3, <3>1
        <3>2. CASE f # e
            <4>1. ASSUME chainMutex' = f PROVE pc'[f] = "record" /\ ChainWait' \subseteq waits'[f]
                <5>1. chainMutex = f
                    BY <1>1, <4>1
                <5>2. ~Graphics(e)
                    BY <1>1, <3>2, <5>1 DEF Order, Chained
                <5>3. ChainWait' \subseteq ChainWait
                    <6>1. chain' = chain /\ chain # issued + 1
                        BY <1>1, <5>2 DEF Numbered
                    <6> QED BY <1>1, <1>2, <6>1 DEF ChainWait, Flying
                <5> QED BY <1>3, <3>2, <5>1, <5>3 DEF Order, Chained
            <4>2. pc'[f] = "chain" => Graphics(f)'
                BY <1>3, <1>4, <3>2 DEF Order, Chained
            <4>3. pc'[f] = "record" => (Graphics(f)' <=> chainMutex' = f)
                BY <1>1, <1>3, <1>4, <3>2 DEF Order, Chained
            <4> QED BY <4>1, <4>2, <4>3
        <3> QED BY <3>1, <3>2
    <2> QED BY <2>1, <2>2 DEF Chained
<1> QED BY <1>7, <1>8, <1>9, <1>10 DEF Order

\* A submission that is over needs no order.
LEMMA OrderExecute ==
    ASSUME Order, Commits, Numbered, NEW s \in inFlight, Execute(s)
    PROVE  Order'
<1>1. /\ inFlight' = inFlight \ {s}
      /\ UNCHANGED <<pc, commandList, waits, last, chainMutex, chain, displayed, pipeVars>>
    BY DEF Execute, cpuVars, commitVars, orderVars
<1>2. \A f \in Everyone : Listed(f)' = Listed(f) /\ Graphics(f)' = Graphics(f)
    BY <1>1, ListedSame DEF pipeVars, FramebufferOf
<1>3. Chained'
    <2>1. \A t \in inFlight' : t.id \in Before({chain}) => t.id \in Before({chain})'
        <3>1. s.after \cap Flying = {}
            BY DEF Execute, Ready
        <3> QED BY <1>1, <3>1 DEF Before, Flying
    <2>2. ChainWait' \subseteq ChainWait
        BY <1>1 DEF ChainWait, Flying
    <2> QED BY <1>1, <1>2, <2>1, <2>2 DEF Order, Chained
<1>4. Awaited'
    <2>1. \A f \in Everyone : \A t \in inFlight' : t.id \in Covered(f) => t.id \in Covered(f)'
        BY ExecuteCovers
    <2> QED BY <1>1, <1>2, <2>1 DEF Order, Awaited
<1>5. Apart' /\ OrderedUse'
    BY <1>1, <1>2 DEF Order, Apart, OrderedUse
<1> QED BY <1>3, <1>4, <1>5 DEF Order

\* Commits that go on without a new list touch what they touched.
LEMMA OrderKept ==
    ASSUME Order, Commits, UNCHANGED <<pc, chainMutex, chain, inFlight, last, commandList, displayed>>,
           \A e \in Everyone : waits[e] \subseteq waits'[e],
           \/ renderTarget' = renderTarget /\ FramebufferOf' = FramebufferOf
           \/ \A e \in Everyone : \A n \in DOMAIN commandList[e] : commandList[e][n].kind # "draw"
    PROVE  Order'
<1>1. \A e \in Everyone : Listed(e)' = Listed(e) /\ Graphics(e)' = Graphics(e)
    BY ListedSame
<1> QED BY <1>1, OrderSame

\* A commit of the application begins: the caller has waited.
LEMMA OrderCommit ==
    ASSUME Order, Commits, NEW e \in Executor, BeginCommit(e)
    PROVE  Order'
<1> USE DEF Everyone
<1>1. PICK list \in AppList :
          Synchronised(e, TouchedBy(list), IsGraphics(list)) /\ Start(e, list)
    BY DEF BeginCommit
<1>2. /\ pc[e] = "idle" /\ commandList' = [commandList EXCEPT ![e] = list]
      /\ pc' = [pc EXCEPT ![e] = IF IsGraphics(list) THEN "chain" ELSE "record"]
      /\ UNCHANGED <<pipeVars, orderVars, inFlight, displayed>>
    BY <1>1 DEF Start, BeginCommit, cpuVars
<1>3. commandList'[e] = list
    BY <1>2 DEF Commits
<1>4. UNCHANGED <<renderTarget, framebuffer, displayed, waits, last, chainMutex, chain, inFlight>>
    BY <1>2 DEF pipeVars, orderVars
<1>5. TouchedBy(list)' = TouchedBy(list)
    <2>1. \A n \in DOMAIN list : Touches(list[n])' = Touches(list[n])
        BY <1>4 DEF Touches, FramebufferOf
    <2> QED BY <2>1 DEF TouchedBy
<1>6. Listed(e)' = TouchedBy(list) /\ Graphics(e)' = IsGraphics(list)
    <2>1. Listed(e)' = TouchedBy(list)'
        BY <1>3 DEF Listed, TouchedBy
    <2>2. Graphics(e)' = IsGraphics(list)
        BY <1>3 DEF Graphics, IsGraphics
    <2> QED BY <1>5, <2>1, <2>2
<1>7. pc'[e] = (IF Graphics(e)' THEN "chain" ELSE "record")
    BY <1>2, <1>6 DEF Commits
<1>8. ASSUME NEW f \in Everyone, f # e
      PROVE  pc'[f] = pc[f] /\ Listed(f)' = Listed(f) /\ Graphics(f)' = Graphics(f)
    <2>1. commandList'[f] = commandList[f] /\ FramebufferOf' = FramebufferOf
        BY <1>2, <1>4, <1>8 DEF Commits, FramebufferOf
    <2> QED BY <1>2, <1>4, <1>8, <2>1, ListedSame DEF Commits
<1>9. \A s \in inFlight : \/ s.images \cap Listed(e)' = {}
                          \/ s.id \in Covered(e)
                          \/ s.graphics /\ Graphics(e)'
    BY <1>1, <1>6 DEF Synchronised, Covered
<1>10. \A f \in Everyone \ {e} : \/ pc[f] = "idle"
                                 \/ Listed(f) \cap Listed(e)' = {}
                                 \/ Graphics(f) /\ Graphics(e)'
    BY <1>1, <1>6 DEF Synchronised, Listed, Graphics
<1> QED BY <1>2, <1>4, <1>7, <1>8, <1>9, <1>10, OrderBegin

\* A frame begins: the caller has waited here too.
LEMMA OrderDisplay ==
    ASSUME Order, Commits, NEW i \in Image, BeginDisplay(i)
    PROVE  Order'
<1> USE ExecutorAssumption DEF Everyone
<1> DEFINE list == <<BlitCommand>>
<1>1. /\ pc[Display] = "idle" /\ commandList' = [commandList EXCEPT ![Display] = list]
      /\ pc' = [pc EXCEPT ![Display] = IF IsGraphics(list) THEN "chain" ELSE "record"]
      /\ UNCHANGED <<pipeVars, orderVars, inFlight>>
      /\ Synchronised(Display, {displayed', Screen}, TRUE)
    BY DEF Start, BeginDisplay
<1>2. commandList'[Display] = list
    BY <1>1 DEF Commits
<1>3. UNCHANGED <<renderTarget, framebuffer, waits, last, chainMutex, chain, inFlight>>
    BY <1>1 DEF pipeVars, orderVars
<1>4. IsGraphics(list) /\ Graphics(Display)'
    <2>1. 1 \in DOMAIN list /\ list[1].kind = "blit"
        BY DEF BlitCommand, Command
    <2> QED BY <1>2, <2>1 DEF Graphics, IsGraphics, GraphicsKind
<1>5. Listed(Display)' = {displayed', Screen}
    <2>1. DOMAIN list = {1} /\ list[1].kind = "blit"
        BY DEF BlitCommand, Command
    <2>2. Touches(list[1])' = {displayed', Screen}
        BY <2>1 DEF Touches
    <2>3. Listed(Display)' = UNION {Touches(list[n])' : n \in DOMAIN list}
        BY <1>2 DEF Listed, TouchedBy
    <2> QED BY <2>1, <2>2, <2>3
<1>6. pc'[Display] = (IF Graphics(Display)' THEN "chain" ELSE "record")
    BY <1>1, <1>4 DEF Commits
<1>7. ASSUME NEW f \in Everyone, f # Display
      PROVE  pc'[f] = pc[f] /\ Listed(f)' = Listed(f) /\ Graphics(f)' = Graphics(f)
    <2>1. commandList'[f] = commandList[f] /\ FramebufferOf' = FramebufferOf
        BY <1>1, <1>3, <1>7 DEF Commits, FramebufferOf
    <2>2. commandList[f] # <<BlitCommand>>
        BY <1>7 DEF Commits
    <2> QED BY <1>1, <1>3, <1>7, <2>1, <2>2, ListedSame DEF Commits
<1>8. \A s \in inFlight : \/ s.images \cap Listed(Display)' = {}
                          \/ s.id \in Covered(Display)
                          \/ s.graphics /\ Graphics(Display)'
    BY <1>1, <1>4, <1>5 DEF Synchronised, Covered
<1>9. \A f \in Everyone \ {Display} : \/ pc[f] = "idle"
                                      \/ Listed(f) \cap Listed(Display)' = {}
                                      \/ Graphics(f) /\ Graphics(Display)'
    BY <1>1, <1>4, <1>5 DEF Synchronised, Listed, Graphics
<1> QED BY <1>1, <1>3, <1>6, <1>7, <1>8, <1>9, OrderBegin

\* No step breaks Order.
LEMMA OrderStep ==
    ASSUME Order, Commits, Numbered, [Next]_vars
    PROVE  Order'
<1> USE DEF cpuVars, pipeVars, commitVars, orderVars
<1>1. ASSUME NEW i \in Target, SetTarget(i) PROVE Order'
    BY <1>1, OrderKept DEF SetTarget
<1>2. ASSUME NEW e \in Everyone, NEW f \in Executor, Wait(e, f) PROVE Order'
    <2>1. /\ waits' = [waits EXCEPT ![e] = @ \cup {last[f]}]
          /\ UNCHANGED <<pc, chainMutex, chain, inFlight, last, commandList, displayed, renderTarget,
                         framebuffer>>
        BY <1>2 DEF Wait
    <2>2. \A g \in Everyone : waits[g] \subseteq waits'[g]
        BY <2>1 DEF Commits
    <2> QED BY <2>1, <2>2, OrderKept DEF FramebufferOf
<1>3. ASSUME NEW e \in Executor, BeginCommit(e) PROVE Order'
    BY <1>3, OrderCommit
<1>4. ASSUME NEW i \in Image, BeginDisplay(i) PROVE Order'
    BY <1>4, OrderDisplay
<1>5. ASSUME RecreateSwapChain PROVE Order'
    BY <1>5, OrderKept DEF RecreateSwapChain, FramebufferOf
<1>6. ASSUME NEW e \in Everyone, LockChain(e) PROVE Order'
    BY <1>6, OrderLock
\* A draw makes the framebuffer for the target it touches, if there is none.
<1>7. ASSUME NEW e \in Everyone, Record(e) PROVE Order'
    <2>1. /\ UNCHANGED <<pc, chainMutex, chain, inFlight, last, waits, commandList, displayed, renderTarget>>
          /\ framebuffer' \in {framebuffer, FramebufferOf}
        BY <1>7 DEF Record
    <2>2. FramebufferOf' = FramebufferOf
        BY <2>1 DEF FramebufferOf
    <2> QED BY <2>1, <2>2, OrderKept
<1>8. ASSUME NEW e \in Everyone, Submit(e) PROVE Order'
    BY <1>8, OrderSubmit
<1>9. ASSUME GpuStep PROVE Order'
    BY <1>9, OrderExecute DEF GpuStep
<1>10. ASSUME UNCHANGED vars PROVE Order'
    BY <1>10, OrderKept DEF vars, FramebufferOf
<1> QED BY <1>1, <1>2, <1>3, <1>4, <1>5, <1>6, <1>7, <1>8, <1>9, <1>10 DEF Next

-----------------------------------------------------------------------------
(***************************************************************************)
(* Uses are ordered                                                        *)
(***************************************************************************)

\* IInv holds at the start.
LEMMA InitIInv == Init => IInv
<1> SUFFICES ASSUME Init PROVE IInv
    OBVIOUS
<1> USE ExecutorAssumption DEF Everyone
<1>1. /\ pc = [e \in Everyone |-> "idle"] /\ commandList = [e \in Everyone |-> << >>]
      /\ waits = [e \in Everyone |-> {}] /\ last = [e \in Everyone |-> 0]
      /\ chainMutex = None /\ chain = 0 /\ inFlight = {} /\ issued = 0
    BY DEF Init
<1>2. Commits
    <2>1. << >> # <<BlitCommand>>
        OBVIOUS
    <2> QED BY <1>1, <2>1 DEF Commits
<1>3. Numbered
    BY <1>1 DEF Numbered
<1>4. Order
    BY <1>1 DEF Order, Chained, Awaited, Apart, OrderedUse
<1> QED BY <1>2, <1>3, <1>4 DEF IInv

\* In every reachable state the chain mutex belongs to the one graphics commit that
\* records, and every commit under way waits for what it shares an image with, unless
\* the chain will order the two.
THEOREM Invariance == Spec => []IInv
<1>1. IInv /\ [Next]_vars => IInv'
    BY CommitsStep, NumberedStep, OrderStep DEF IInv
<1> QED BY InitIInv, <1>1, PTL DEF Spec

\* Two submissions in flight that touch the same image are ordered by what they wait
\* for, however commits, frames, retargets and completions interleave: what a caller
\* sees when its commit begins and the wait of the chain are enough.
THEOREM UsesAreOrdered == Spec => []OrderedUse
<1>1. IInv => OrderedUse
    BY DEF IInv, Order
<1> QED BY Invariance, <1>1, PTL

-----------------------------------------------------------------------------
(***************************************************************************)
(* Steps and the layouts they lead to                                      *)
(***************************************************************************)

\* With one subresource, a transition is of the whole image.
Move == [image : GpuImage, parts : {First}, old : Layout, new : Layout]

\* No step from the m-th to the n-th names the image.
Silent(sq, i, m, n) == \A k \in m .. n : \A t \in sq[k] : t.image # i

\* Started in a, the first n steps leave the image in b.
Result(sq, n, i, a, b) ==
    \/ a = b /\ Silent(sq, i, 1, n)
    \/ \E m \in 1 .. n : /\ \E t \in sq[m] : t.image = i /\ t.new = b
                         /\ Silent(sq, i, m + 1, n)

\* Started in a, every step finds the image in the layout it says, and the last leaves
\* it in b.
Runs(sq, i, a, b) ==
    /\ \A n \in DOMAIN sq : \A t \in sq[n] : t.image = i => Result(sq, n - 1, i, a, t.old)
    /\ Result(sq, Len(sq), i, a, b)

\* One step takes an image from a to b.
Takes(st, i, a, b) ==
    \/ (\E t \in st : t.image = i /\ t.new = b) /\ (\A t \in st : t.image = i => t.old = a)
    \/ (\A t \in st : t.image # i) /\ a = b

\* An empty command buffer leaves every image in what it is in.
LEMMA RunsNothing == \A i, a : Runs(<< >>, i, a, a)
BY DEF Runs, Result, Silent

\* A command buffer of one step.
LEMMA RunsOne ==
    ASSUME NEW st, NEW i, NEW a, NEW b, Takes(st, i, a, b)
    PROVE  Runs(<<st>>, i, a, b)
<1> DEFINE sq == <<st>>
<1>1. DOMAIN sq = {1} /\ Len(sq) = 1 /\ sq[1] = st
    OBVIOUS
<1> HIDE DEF sq
<1>2. Silent(sq, i, 1, 0) /\ Silent(sq, i, 2, 1)
    BY DEF Silent
<1>3. \A n \in DOMAIN sq : \A t \in sq[n] : t.image = i => Result(sq, n - 1, i, a, t.old)
    <2>1. \A t \in st : t.image = i => t.old = a
        BY DEF Takes
    <2>2. Result(sq, 0, i, a, a)
        BY <1>2 DEF Result
    <2> QED BY <1>1, <2>1, <2>2
<1>4. Result(sq, 1, i, a, b)
    <2>1. CASE \E t \in st : t.image = i /\ t.new = b
        BY <1>1, <1>2, <2>1 DEF Result
    <2>2. CASE (\A t \in st : t.image # i) /\ a = b
        <3>1. Silent(sq, i, 1, 1)
            BY <1>1, <2>2 DEF Silent
        <3> QED BY <2>2, <3>1 DEF Result
    <2> QED BY <2>1, <2>2 DEF Takes
<1>5. Runs(sq, i, a, b)
    BY <1>1, <1>3, <1>4 DEF Runs
<1> QED BY <1>5 DEF sq

\* What follows goes on from the layout that was reached.
LEMMA ResultOn ==
    ASSUME NEW S, NEW sq \in Seq(S), NEW st \in Seq(S), NEW i, NEW a, NEW b, NEW c,
           Result(sq, Len(sq), i, a, b), NEW n \in 0 .. Len(st), Result(st, n, i, b, c)
    PROVE  Result(sq \o st, Len(sq) + n, i, a, c)
<1> DEFINE both == sq \o st
<1> DEFINE l == Len(sq)
<1>1. /\ l \in Nat /\ Len(st) \in Nat /\ Len(both) = l + Len(st)
      /\ \A k \in 1 .. l : both[k] = sq[k]
      /\ \A k \in 1 .. Len(st) : both[l + k] = st[k]
    OBVIOUS
<1> HIDE DEF both, l
<1>2. ASSUME NEW m \in 1 .. (n + 1), Silent(st, i, m, n) PROVE Silent(both, i, l + m, l + n)
    <2>1. ASSUME NEW k \in (l + m) .. (l + n) PROVE \A t \in both[k] : t.image # i
        <3>1. k - l \in m .. n /\ k - l \in 1 .. Len(st) /\ l + (k - l) = k
            BY <1>1
        <3>2. both[k] = st[k - l]
            BY <1>1, <3>1
        <3> QED BY <1>2, <3>1, <3>2 DEF Silent
    <2> QED BY <2>1 DEF Silent
<1>3. CASE \E m \in 1 .. n : (\E t \in st[m] : t.image = i /\ t.new = c) /\ Silent(st, i, m + 1, n)
    <2>1. PICK m \in 1 .. n : (\E t \in st[m] : t.image = i /\ t.new = c) /\ Silent(st, i, m + 1, n)
        BY <1>3
    <2>2. both[l + m] = st[m] /\ l + m \in 1 .. (l + n) /\ m + 1 \in 1 .. (n + 1) /\ l + (m + 1) = (l + m) + 1
        BY <1>1
    <2>3. Silent(both, i, (l + m) + 1, l + n)
        BY <1>2, <2>1, <2>2
    <2>4. Result(both, l + n, i, a, c)
        BY <2>1, <2>2, <2>3 DEF Result
    <2> QED BY <2>4 DEF both, l
<1>4. CASE b = c /\ Silent(st, i, 1, n)
    <2>1. Silent(both, i, l + 1, l + n)
        BY <1>1, <1>2, <1>4
    <2>2. ASSUME NEW m \in 1 .. (l + 1), Silent(sq, i, m, l) PROVE Silent(both, i, m, l + n)
        <3>1. ASSUME NEW k \in m .. (l + n) PROVE \A t \in both[k] : t.image # i
            <4>1. CASE k <= l
                <5>1. k \in m .. l /\ k \in 1 .. l
                    BY <1>1, <4>1
                <5> QED BY <1>1, <2>2, <5>1 DEF Silent
            <4>2. CASE ~(k <= l)
                <5>1. k \in (l + 1) .. (l + n)
                    BY <1>1, <4>2
                <5> QED BY <2>1, <5>1 DEF Silent
            <4> QED BY <4>1, <4>2
        <3> QED BY <3>1 DEF Silent
    <2>3. CASE a = b /\ Silent(sq, i, 1, l)
        <3>1. Silent(both, i, 1, l + n)
            BY <1>1, <2>2, <2>3
        <3>2. Result(both, l + n, i, a, c)
            BY <1>4, <2>3, <3>1 DEF Result
        <3> QED BY <3>2 DEF both, l
    <2>4. CASE \E m \in 1 .. l : (\E t \in sq[m] : t.image = i /\ t.new = b) /\ Silent(sq, i, m + 1, l)
        <3>1. PICK m \in 1 .. l : (\E t \in sq[m] : t.image = i /\ t.new = b) /\ Silent(sq, i, m + 1, l)
            BY <2>4
        <3>2. both[m] = sq[m] /\ m \in 1 .. (l + n) /\ m + 1 \in 1 .. (l + 1)
            BY <1>1
        <3>3. Silent(both, i, m + 1, l + n)
            BY <2>2, <3>1, <3>2
        <3>4. Result(both, l + n, i, a, c)
            BY <1>4, <3>1, <3>2, <3>3 DEF Result
        <3> QED BY <3>4 DEF both, l
    <2> QED BY <2>3, <2>4 DEF Result, l
<1> QED BY <1>3, <1>4 DEF Result

\* The first steps are what they were.
LEMMA ResultKept ==
    ASSUME NEW S, NEW sq \in Seq(S), NEW st \in Seq(S), NEW i, NEW a, NEW b,
           NEW n \in 0 .. Len(sq), Result(sq, n, i, a, b)
    PROVE  Result(sq \o st, n, i, a, b)
<1> DEFINE both == sq \o st
<1>1. \A k \in 1 .. n : both[k] = sq[k]
    OBVIOUS
<1> HIDE DEF both
<1>2. \A m \in 1 .. (n + 1) : Silent(sq, i, m, n) => Silent(both, i, m, n)
    BY <1>1 DEF Silent
<1>3. Result(both, n, i, a, b)
    BY <1>1, <1>2 DEF Result
<1> QED BY <1>3 DEF both

\* Recording more: the new steps start where the ones before them ended.
LEMMA RunsOn ==
    ASSUME NEW S, NEW sq \in Seq(S), NEW st \in Seq(S), NEW i, NEW a, NEW b, NEW c,
           Runs(sq, i, a, b), Runs(st, i, b, c)
    PROVE  Runs(sq \o st, i, a, c)
<1> DEFINE both == sq \o st
<1> DEFINE l == Len(sq)
<1>1. /\ l \in Nat /\ Len(st) \in Nat /\ Len(both) = l + Len(st)
      /\ DOMAIN sq = 1 .. l /\ DOMAIN st = 1 .. Len(st) /\ DOMAIN both = 1 .. (l + Len(st))
      /\ \A k \in 1 .. l : both[k] = sq[k]
      /\ \A k \in 1 .. Len(st) : both[l + k] = st[k]
    OBVIOUS
<1>2. Result(sq, l, i, a, b) /\ Result(st, Len(st), i, b, c)
    BY DEF Runs
<1>3. Result(both, l + Len(st), i, a, c)
    BY <1>1, <1>2, ResultOn
<1>4. ASSUME NEW n \in DOMAIN both, NEW t \in both[n], t.image = i
      PROVE  Result(both, n - 1, i, a, t.old)
    <2>1. CASE n \in 1 .. l
        <3>1. Result(sq, n - 1, i, a, t.old)
            BY <1>1, <1>4, <2>1 DEF Runs
        <3>2. n - 1 \in 0 .. Len(sq)
            BY <1>1, <2>1
        <3> QED BY <3>1, <3>2, ResultKept
    <2>2. CASE n \notin 1 .. l
        <3>1. PICK k \in 1 .. Len(st) : n = l + k
            <4>1. n - l \in 1 .. Len(st) /\ n = l + (n - l)
                BY <1>1, <2>2
            <4> QED BY <4>1
        <3>2. both[n] = st[k]
            BY <1>1, <3>1
        <3>3. Result(st, k - 1, i, b, t.old)
            BY <1>1, <1>4, <3>2 DEF Runs
        <3>4. k - 1 \in 0 .. Len(st) /\ n - 1 = l + (k - 1)
            BY <1>1, <3>1
        <3> HIDE DEF both
        <3>5. Result(sq \o st, l + (k - 1), i, a, t.old)
            BY <1>2, <3>3, <3>4, ResultOn
        <3> QED BY <3>4, <3>5 DEF both
    <2> QED BY <2>1, <2>2
<1> QED BY <1>1, <1>3, <1>4 DEF Runs

\* Three steps in a row.
LEMMA RunsThree ==
    ASSUME NEW S, NEW s1 \in S, NEW s2 \in S, NEW s3 \in S, NEW i, NEW a, NEW b, NEW c, NEW d,
           Takes(s1, i, a, b), Takes(s2, i, b, c), Takes(s3, i, c, d)
    PROVE  Runs(<<s1, s2, s3>>, i, a, d)
<1>1. <<s1>> \in Seq(S) /\ <<s2>> \in Seq(S) /\ <<s3>> \in Seq(S) /\ <<s1, s2>> \in Seq(S)
    OBVIOUS
<1>2. Append(<<s1>>, s2) = <<s1>> \o <<s2>> /\ Append(<<s1, s2>>, s3) = <<s1, s2>> \o <<s3>>
    BY <1>1, AppendIsConcat
<1>3. <<s1, s2>> = Append(<<s1>>, s2) /\ <<s1, s2, s3>> = Append(<<s1, s2>>, s3)
    OBVIOUS
<1>4. Runs(<<s1>>, i, a, b) /\ Runs(<<s2>>, i, b, c) /\ Runs(<<s3>>, i, c, d)
    BY RunsOne
<1>5. Runs(<<s1, s2>>, i, a, c)
    <2>1. Runs(<<s1>> \o <<s2>>, i, a, c)
        BY <1>1, <1>4, RunsOn
    <2> QED BY <1>2, <1>3, <2>1
<1>6. Runs(<<s1, s2>> \o <<s3>>, i, a, d)
    BY <1>1, <1>4, <1>5, RunsOn
<1> QED BY <1>2, <1>3, <1>6

\* Four steps in a row.
LEMMA RunsFour ==
    ASSUME NEW S, NEW s1 \in S, NEW s2 \in S, NEW s3 \in S, NEW s4 \in S,
           NEW i, NEW a, NEW b, NEW c, NEW d, NEW e,
           Takes(s1, i, a, b), Takes(s2, i, b, c), Takes(s3, i, c, d), Takes(s4, i, d, e)
    PROVE  Runs(<<s1, s2, s3, s4>>, i, a, e)
<1>1. <<s4>> \in Seq(S) /\ <<s1, s2, s3>> \in Seq(S)
    OBVIOUS
<1>2. Append(<<s1, s2, s3>>, s4) = <<s1, s2, s3>> \o <<s4>>
    BY <1>1, AppendIsConcat
<1>3. <<s1, s2, s3, s4>> = Append(<<s1, s2, s3>>, s4)
    OBVIOUS
<1>4. Runs(<<s1, s2, s3>>, i, a, d) /\ Runs(<<s4>>, i, d, e)
    BY RunsThree, RunsOne
<1>5. Runs(<<s1, s2, s3>> \o <<s4>>, i, a, e)
    BY <1>1, <1>4, RunsOn
<1> QED BY <1>2, <1>3, <1>5

\* Transitions that go together, one for an image.
Moves(st, images) ==
    /\ st \subseteq Move
    /\ \A t \in st : t.image \in images /\ \A u \in st : u.image = t.image => u = t

\* A sequence of such steps.
Made(sq, images) ==
    /\ sq \in Seq(SUBSET Move)
    /\ \A n \in DOMAIN sq : Moves(sq[n], images)

\* Recording more keeps the sequence well made.
LEMMA MadeOn ==
    ASSUME NEW images, NEW sq, NEW st, Made(sq, images), Made(st, images)
    PROVE  Made(sq \o st, images)
<1> DEFINE both == sq \o st
<1>1. sq \in Seq(SUBSET Move) /\ st \in Seq(SUBSET Move)
    BY DEF Made
<1>2. both \in Seq(SUBSET Move)
    BY <1>1
<1>3. ASSUME NEW n \in DOMAIN both PROVE Moves(both[n], images)
    <2>1. CASE n \in DOMAIN sq
        <3>1. both[n] = sq[n]
            BY <1>1, <2>1
        <3> QED BY <2>1, <3>1 DEF Made
    <2>2. CASE n \notin DOMAIN sq
        <3>1. n - Len(sq) \in DOMAIN st /\ both[n] = st[n - Len(sq)]
            BY <1>1, <2>2
        <3> QED BY <3>1 DEF Made
    <2> QED BY <2>1, <2>2
<1> QED BY <1>2, <1>3 DEF Made

\* Fewer images are some of more.
LEMMA MadeMore ==
    ASSUME NEW X, NEW Y, NEW sq, Made(sq, X), X \subseteq Y
    PROVE  Made(sq, Y)
BY DEF Made, Moves

\* A sequence of one step.
LEMMA MadeOne ==
    ASSUME NEW X, NEW s1, Moves(s1, X)
    PROVE  Made(<<s1>>, X)
<1> DEFINE sq == <<s1>>
<1>1. s1 \in SUBSET Move
    BY DEF Moves
<1>2. sq \in Seq(SUBSET Move) /\ DOMAIN sq = {1} /\ sq[1] = s1
    BY <1>1
<1> HIDE DEF sq
<1>3. Made(sq, X)
    BY <1>2 DEF Made
<1> QED BY <1>3 DEF sq

\* A sequence of three steps.
LEMMA MadeThree ==
    ASSUME NEW X, NEW s1, NEW s2, NEW s3, Moves(s1, X), Moves(s2, X), Moves(s3, X)
    PROVE  Made(<<s1, s2, s3>>, X)
<1> DEFINE sq == <<s1, s2, s3>>
<1>1. {s1, s2, s3} \subseteq SUBSET Move
    BY DEF Moves
<1>2. sq \in Seq(SUBSET Move) /\ DOMAIN sq = {1, 2, 3} /\ sq[1] = s1 /\ sq[2] = s2 /\ sq[3] = s3
    BY <1>1
<1> HIDE DEF sq
<1>3. Made(sq, X)
    BY <1>2 DEF Made
<1> QED BY <1>3 DEF sq

\* A sequence of four steps.
LEMMA MadeFour ==
    ASSUME NEW X, NEW s1, NEW s2, NEW s3, NEW s4, Moves(s1, X), Moves(s2, X), Moves(s3, X), Moves(s4, X)
    PROVE  Made(<<s1, s2, s3, s4>>, X)
<1> DEFINE sq == <<s1, s2, s3, s4>>
<1>1. {s1, s2, s3, s4} \subseteq SUBSET Move
    BY DEF Moves
<1>2. sq \in Seq(SUBSET Move) /\ DOMAIN sq = {1, 2, 3, 4}
      /\ sq[1] = s1 /\ sq[2] = s2 /\ sq[3] = s3 /\ sq[4] = s4
    BY <1>1
<1> HIDE DEF sq
<1>3. Made(sq, X)
    BY <1>2 DEF Made
<1> QED BY <1>3 DEF sq

\* What LayoutAfter asks of a submission: no step has two transitions of the image.
Calm(s, i) ==
    /\ s.steps \in Seq(SUBSET Move)
    /\ \A k \in DOMAIN s.steps : \A t, u \in s.steps[k] : t.image = i /\ u.image = i => t = u

\* The layout the GPU has reached is the one the steps lead to.
LEMMA LayoutAfterIs ==
    \A s, i, n, l : \A q \in First :
        Calm(s, i) /\ n \in 0 .. Len(s.steps) /\ Result(s.steps, n, i, gpuLayout[i][q], l)
        => LayoutAfter(s, n, i, q) = l
<1> SUFFICES ASSUME NEW s, NEW i, NEW n, NEW l, NEW q \in First,
                    Calm(s, i), n \in 0 .. Len(s.steps), Result(s.steps, n, i, gpuLayout[i][q], l)
             PROVE  LayoutAfter(s, n, i, q) = l
    BY Zenon
<1>0. /\ s.steps \in Seq(SUBSET Move)
      /\ \A k \in DOMAIN s.steps : \A t, u \in s.steps[k] : t.image = i /\ u.image = i => t = u
    BY DEF Calm
<1> DEFINE hits == {m \in 1 .. n : \E t \in s.steps[m] : Names(t, i, q)}
<1> DEFINE step == s.steps[CHOOSE m \in hits : \A k \in hits : k <= m]
<1>1. /\ LayoutAfter(s, n, i, q) = IF hits = {} THEN gpuLayout[i][q]
                                   ELSE (CHOOSE t \in step : Names(t, i, q)).new
      /\ n \in Nat /\ 1 .. n \subseteq DOMAIN s.steps
    BY <1>0 DEF LayoutAfter
<1>2. \A m \in 1 .. n : \A t \in s.steps[m] : Names(t, i, q) <=> t.image = i
    <2>1. ASSUME NEW m \in 1 .. n, NEW t \in s.steps[m] PROVE t.parts = First
        <3>1. m \in DOMAIN s.steps
            BY <1>1
        <3>2. s.steps[m] \subseteq Move
            BY <1>0, <3>1
        <3> QED BY <3>2 DEF Move
    <2> QED BY <2>1 DEF Names
<1>3. CASE l = gpuLayout[i][q] /\ Silent(s.steps, i, 1, n)
    <2>1. hits = {}
        BY <1>2, <1>3 DEF Silent
    <2> QED BY <1>1, <1>3, <2>1
<1>4. CASE \E m \in 1 .. n : (\E t \in s.steps[m] : t.image = i /\ t.new = l) /\ Silent(s.steps, i, m + 1, n)
    <2>1. PICK m \in 1 .. n : (\E t \in s.steps[m] : t.image = i /\ t.new = l) /\ Silent(s.steps, i, m + 1, n)
        BY <1>4
    <2>2. PICK t \in s.steps[m] : t.image = i /\ t.new = l
        BY <2>1
    <2>3. m \in hits
        BY <1>2, <2>2
    <2>4. \A k \in hits : k <= m
        <3>1. ASSUME NEW k \in hits, ~(k <= m) PROVE FALSE
            <4>1. k \in (m + 1) .. n
                BY <1>1, <3>1
            <4> QED BY <1>2, <2>1, <4>1 DEF Silent
        <3> QED BY <3>1
    <2>5. (CHOOSE x \in hits : \A k \in hits : k <= x) = m
        BY <2>3, <2>4
    <2>6. step = s.steps[m]
        BY <2>5
    <2>7. (CHOOSE u \in step : Names(u, i, q)) = t
        <3>1. m \in DOMAIN s.steps
            BY <1>1
        <3>2. \A u \in step : Names(u, i, q) => u = t
            BY <1>0, <1>2, <2>2, <2>6, <3>1
        <3> QED BY <1>2, <2>2, <2>6, <3>2
    <2> HIDE DEF step
    <2> QED BY <1>1, <2>2, <2>3, <2>7
<1> QED BY <1>3, <1>4 DEF Result

-----------------------------------------------------------------------------
(***************************************************************************)
(* What each command records                                               *)
(***************************************************************************)

\* The instance the bookkeeping is right for: one subresource, and the targets set before the
\* first draw.  A field is one layout for all mip levels and layers while a copy, a draw or a
\* blit moves one, and a target set later is not the one of the framebuffer: with more, the
\* fields do not tell the layouts.
Single == Mips = 1 /\ Layers = 1 /\ MaxRetargets = 0

\* What a field may say.  Only a target the pipeline alone writes is ever left in COLOR, and
\* the image the displayer copied the field of is in GENERAL from then on, so that the copy
\* stays true.
Fields ==
    /\ imageLayout \in [Slot -> Layout]
    /\ \A i \in Image : imageLayout[i] \in {"UNDEFINED", "GENERAL"} \cup
                            (IF i \in Target \ StorageImage THEN {"COLOR"} ELSE {})
    /\ imageLayout[Screen] \in {"UNDEFINED", "PRESENT"}
    /\ displayed \in StorageImage \cup {None}
    /\ displayed # None => imageLayout[displayed] = "GENERAL" /\ imageLayout[Copy] = "GENERAL"
    /\ pc[Display] # "idle" => displayed # None

\* The framebuffer is the one of the target, and the depth image is in DEPTH from the first
\* draw on.
Pass ==
    /\ renderTarget \in Target
    /\ framebuffer \in {None, renderTarget}
    /\ depthImage \in {None, Depth}
    /\ framebuffer = None => imageLayout[Depth] = "UNDEFINED"
    /\ framebuffer # None => /\ imageLayout[Depth] = "DEPTH"
                             /\ depthImage = Depth /\ passLayout = FinalLayout(framebuffer)
    /\ retargets \in Nat

\* Three names name at most three things.
LEMMA ThreeAtMost == \A a, b, c : Cardinality({a, b, c}) <= 3
<1>1. ASSUME NEW S, IsFiniteSet(S), NEW x
      PROVE  /\ IsFiniteSet(S \cup {x}) /\ Cardinality(S) \in Nat
             /\ Cardinality(S \cup {x}) \in {Cardinality(S), Cardinality(S) + 1}
    BY <1>1, FS_AddElement, FS_CardinalityType
<1>2. ASSUME NEW a, NEW b, NEW c PROVE Cardinality({a, b, c}) <= 3
    <2> DEFINE one == {a}
    <2> DEFINE two == one \cup {b}
    <2> DEFINE three == two \cup {c}
    <2>1. IsFiniteSet(one) /\ Cardinality(one) = 1
        BY FS_Singleton
    <2> HIDE DEF one
    <2>2. IsFiniteSet(two) /\ Cardinality(two) \in {Cardinality(one), Cardinality(one) + 1}
        BY <1>1, <2>1
    <2> HIDE DEF two
    <2>3. Cardinality(three) \in {Cardinality(two), Cardinality(two) + 1}
        BY <1>1, <2>2
    <2> HIDE DEF three
    <2>4. Cardinality(three) <= 3
        BY <2>1, <2>2, <2>3
    <2>5. three = {a, b, c}
        BY DEF one, two, three
    <2> QED BY <2>4, <2>5
<1> QED BY <1>2

\* The four special slots are four.
LEMMA Distinct ==
    /\ Copy # Screen /\ Copy # Depth /\ Copy # None
    /\ Screen # Depth /\ Screen # None /\ Depth # None
<1>1. Cardinality({Copy, Screen, Depth, None}) = 4
    BY ImageAssumption
<1>2. ASSUME NEW a, NEW b, NEW c, {Copy, Screen, Depth, None} = {a, b, c} PROVE FALSE
    <2>1. Cardinality({a, b, c}) = 4
        BY <1>1, <1>2
    <2>2. Cardinality({a, b, c}) <= 3
        BY ThreeAtMost, Zenon
    <2> QED BY <2>1, <2>2
<1>3. Copy \notin {Screen, Depth, None}
    <2>1. ASSUME Copy \in {Screen, Depth, None} PROVE {Copy, Screen, Depth, None} = {Screen, Depth, None}
        BY <2>1
    <2> QED BY <2>1, <1>2
<1>4. Screen \notin {Depth, None}
    <2>1. ASSUME Screen \in {Depth, None} PROVE {Copy, Screen, Depth, None} = {Copy, Depth, None}
        BY <2>1
    <2> QED BY <2>1, <1>2
<1>5. Depth # None
    <2>1. ASSUME Depth = None PROVE {Copy, Screen, Depth, None} = {Copy, Screen, None}
        BY <2>1
    <2> QED BY <2>1, <1>2
<1> QED BY <1>3, <1>4, <1>5

\* There is one subresource.
LEMMA OnePart ==
    ASSUME Single
    PROVE  /\ Subresource = First /\ LayersOf(0) = First
           /\ \A i : PartsOf(i) = First
<1>1. 0 .. (Mips - 1) = {0} /\ 0 .. (Layers - 1) = {0}
    BY DEF Single
<1>2. Subresource = First
    BY <1>1 DEF Subresource, First
<1>3. LayersOf(0) = First
    BY <1>2 DEF LayersOf, First
<1> QED BY <1>2, <1>3 DEF PartsOf

-----------------------------------------------------------------------------
\* The transition of an image from a to b.
Go(i, a, b) == [image |-> i, parts |-> First, old |-> a, new |-> b]

\* A step of one transition moves its image and no other.
LEMMA GoOne ==
    ASSUME NEW i \in GpuImage, NEW a \in Layout, NEW b \in Layout
    PROVE  /\ Moves({Go(i, a, b)}, {i})
           /\ Takes({Go(i, a, b)}, i, a, b)
           /\ \A k, x : k # i => Takes({Go(i, a, b)}, k, x, x)
<1> DEFINE t == Go(i, a, b)
<1>1. t \in Move /\ t.image = i /\ t.old = a /\ t.new = b
    BY DEF Go, Move
<1> HIDE DEF t
<1>2. Moves({t}, {i}) /\ Takes({t}, i, a, b) /\ \A k, x : k # i => Takes({t}, k, x, x)
    BY <1>1 DEF Moves, Takes
<1> QED BY <1>2 DEF t

\* A step of two transitions moves their images and no other.
LEMMA GoTwo ==
    ASSUME NEW i \in GpuImage, NEW a \in Layout, NEW b \in Layout,
           NEW j \in GpuImage, NEW c \in Layout, NEW d \in Layout, i # j
    PROVE  /\ Moves({Go(i, a, b), Go(j, c, d)}, {i, j})
           /\ Takes({Go(i, a, b), Go(j, c, d)}, i, a, b)
           /\ Takes({Go(i, a, b), Go(j, c, d)}, j, c, d)
           /\ \A k, x : k \notin {i, j} => Takes({Go(i, a, b), Go(j, c, d)}, k, x, x)
<1> DEFINE t == Go(i, a, b)
<1> DEFINE u == Go(j, c, d)
<1>1. /\ t \in Move /\ t.image = i /\ t.old = a /\ t.new = b
      /\ u \in Move /\ u.image = j /\ u.old = c /\ u.new = d
    BY DEF Go, Move
<1> HIDE DEF t, u
<1>2. Moves({t, u}, {i, j})
    BY <1>1 DEF Moves
<1>3. Takes({t, u}, i, a, b) /\ Takes({t, u}, j, c, d)
      /\ \A k, x : k \notin {i, j} => Takes({t, u}, k, x, x)
    BY <1>1 DEF Takes
<1> QED BY <1>2, <1>3 DEF t, u

\* The steps of a command, and what its fields say of them.
Fits(effect, images) ==
    /\ Made(effect.steps, images)
    /\ \A i \in GpuImage : Runs(effect.steps, i, imageLayout[i], effect.fields[i])

\* How slots and images overlap.
LEMMA ImagesAre ==
    /\ Image \subseteq Slot /\ Image \subseteq GpuImage
    /\ {Copy, Screen, Depth} \subseteq Slot /\ {Screen, Depth} \subseteq GpuImage
    /\ GpuImage \subseteq Slot /\ Copy \notin GpuImage /\ None \notin Slot
    /\ StorageImage \subseteq Image /\ Target \subseteq Image
BY ImageAssumption, Distinct DEF Slot, GpuImage

\* A copy between two images takes both through their transfer layouts to GENERAL.
LEMMA CopyImageFits ==
    ASSUME Single, Fields, NEW c, c.src \in Image, c.dst \in Image, c.src # c.dst, c.part \in Subresource
    PROVE  Fits(CopyImage(c), {c.src, c.dst})
<1> DEFINE s == c.src
<1> DEFINE d == c.dst
<1> DEFINE s1 == {Go(s, imageLayout[s], "TRANSFER_SRC"), Go(d, imageLayout[d], "TRANSFER_DST")}
<1> DEFINE s2 == {Go(s, "TRANSFER_SRC", "TRANSFER_SRC"), Go(d, "TRANSFER_DST", "TRANSFER_DST")}
<1> DEFINE s3 == {Go(s, "TRANSFER_SRC", "GENERAL"), Go(d, "TRANSFER_DST", "GENERAL")}
<1> DEFINE fields == Becomes({s, d}, "GENERAL")
<1>1. /\ s \in Slot /\ d \in Slot /\ s \in GpuImage /\ d \in GpuImage /\ s # d
      /\ s # Copy /\ d # Copy /\ GpuImage \subseteq Slot
    BY ImagesAre
<1>2. Subresource = First /\ {c.part} = First /\ PartsOf(s) = First /\ PartsOf(d) = First
    BY OnePart DEF First
<1>3. CopyImage(c) = Effect(<<s1, s2, s3>>, fields)
    BY <1>1, <1>2 DEF CopyImage, Barrier, Access, Restore, Transition, Handle, Go
<1>4. imageLayout[s] \in Layout /\ imageLayout[d] \in Layout
    BY <1>1 DEF Fields
<1>5. {"TRANSFER_SRC", "TRANSFER_DST", "GENERAL"} \subseteq Layout
    BY DEF Layout
<1> HIDE DEF s, d
<1>7. /\ Moves(s1, {s, d}) /\ Moves(s2, {s, d}) /\ Moves(s3, {s, d})
      /\ Takes(s1, s, imageLayout[s], "TRANSFER_SRC") /\ Takes(s1, d, imageLayout[d], "TRANSFER_DST")
      /\ Takes(s2, s, "TRANSFER_SRC", "TRANSFER_SRC") /\ Takes(s2, d, "TRANSFER_DST", "TRANSFER_DST")
      /\ Takes(s3, s, "TRANSFER_SRC", "GENERAL") /\ Takes(s3, d, "TRANSFER_DST", "GENERAL")
      /\ \A i, a : i \notin {s, d} => Takes(s1, i, a, a) /\ Takes(s2, i, a, a) /\ Takes(s3, i, a, a)
    BY <1>1, <1>4, <1>5, GoTwo
<1> HIDE DEF s1, s2, s3
<1>8. Made(<<s1, s2, s3>>, {s, d})
    BY <1>7, MadeThree
<1>9. ASSUME NEW i \in GpuImage PROVE Runs(<<s1, s2, s3>>, i, imageLayout[i], fields[i])
    <2>1. {s1, s2, s3} \subseteq SUBSET Move
        BY <1>7 DEF Moves
    <2>2. CASE i = s
        <3>1. fields[i] = "GENERAL"
            BY <1>1, <2>2 DEF Becomes
        <3>2. /\ Takes(s1, i, imageLayout[i], "TRANSFER_SRC")
              /\ Takes(s2, i, "TRANSFER_SRC", "TRANSFER_SRC") /\ Takes(s3, i, "TRANSFER_SRC", "GENERAL")
            BY <1>7, <2>2
        <3> QED BY <2>1, <3>1, <3>2, RunsThree
    <2>3. CASE i = d
        <3>1. fields[i] = "GENERAL"
            BY <1>1, <2>3 DEF Becomes
        <3>2. /\ Takes(s1, i, imageLayout[i], "TRANSFER_DST")
              /\ Takes(s2, i, "TRANSFER_DST", "TRANSFER_DST") /\ Takes(s3, i, "TRANSFER_DST", "GENERAL")
            BY <1>7, <2>3
        <3> QED BY <2>1, <3>1, <3>2, RunsThree
    <2>4. CASE i \notin {s, d}
        <3>1. fields[i] = imageLayout[i]
            BY <1>1, <2>4 DEF Becomes
        <3>2. \A a : Takes(s1, i, a, a) /\ Takes(s2, i, a, a) /\ Takes(s3, i, a, a)
            BY <1>7, <2>4
        <3> QED BY <2>1, <3>1, <3>2, RunsThree
    <2> QED BY <2>2, <2>3, <2>4
<1>10. CopyImage(c).steps = <<s1, s2, s3>> /\ CopyImage(c).fields = fields
    BY <1>3 DEF Effect
<1> QED BY <1>8, <1>9, <1>10 DEF Fits, s, d

\* There and back again: to the layout of a transfer, and then to GENERAL.
LEMMA OneImageFits ==
    ASSUME Fields, NEW i \in Image, NEW x \in Layout
    PROVE  Fits(Effect(<<{Go(i, imageLayout[i], x)}, {Go(i, x, x)}, {Go(i, x, "GENERAL")}>>,
                       Becomes({i}, "GENERAL")), {i})
<1> DEFINE s1 == {Go(i, imageLayout[i], x)}
<1> DEFINE s2 == {Go(i, x, x)}
<1> DEFINE s3 == {Go(i, x, "GENERAL")}
<1> DEFINE fields == Becomes({i}, "GENERAL")
<1>1. i \in Slot /\ i \in GpuImage /\ GpuImage \subseteq Slot
    BY ImagesAre
<1>2. imageLayout[i] \in Layout /\ "GENERAL" \in Layout
    BY <1>1 DEF Fields, Layout
<1>3. /\ Moves(s1, {i}) /\ Moves(s2, {i}) /\ Moves(s3, {i})
      /\ Takes(s1, i, imageLayout[i], x) /\ Takes(s2, i, x, x) /\ Takes(s3, i, x, "GENERAL")
      /\ \A k, a : k # i => Takes(s1, k, a, a) /\ Takes(s2, k, a, a) /\ Takes(s3, k, a, a)
    BY <1>1, <1>2, GoOne
<1> HIDE DEF s1, s2, s3
<1>4. Made(<<s1, s2, s3>>, {i}) /\ {s1, s2, s3} \subseteq SUBSET Move
    BY <1>3, MadeThree DEF Moves
<1>5. ASSUME NEW k \in GpuImage PROVE Runs(<<s1, s2, s3>>, k, imageLayout[k], fields[k])
    <2>1. CASE k = i
        <3>1. fields[k] = "GENERAL"
            BY <1>1, <2>1 DEF Becomes
        <3> QED BY <1>3, <1>4, <2>1, <3>1, RunsThree
    <2>2. CASE k # i
        <3>1. fields[k] = imageLayout[k]
            BY <1>1, <2>2 DEF Becomes
        <3>2. \A a : Takes(s1, k, a, a) /\ Takes(s2, k, a, a) /\ Takes(s3, k, a, a)
            BY <1>3, <2>2
        <3> QED BY <1>4, <3>1, <3>2, RunsThree
    <2> QED BY <2>1, <2>2
<1>6. Fits(Effect(<<s1, s2, s3>>, fields), {i})
    BY <1>4, <1>5 DEF Fits, Effect
<1> QED BY <1>6 DEF s1, s2, s3

\* An upload.
LEMMA BufferToImageFits ==
    ASSUME Single, Fields, NEW c, c.dst \in Image, c.part \in Subresource
    PROVE  Fits(CopyBufferToImage(c), {c.dst})
<1> DEFINE d == c.dst
<1>1. LayersOf(c.part[1]) = First /\ PartsOf(d) = First
    BY OnePart DEF First
<1>2. Handle(d) = d
    BY ImagesAre DEF Handle, GpuImage
<1>3. CopyBufferToImage(c) =
          Effect(<<{Go(d, imageLayout[d], "TRANSFER_DST")}, {Go(d, "TRANSFER_DST", "TRANSFER_DST")},
                   {Go(d, "TRANSFER_DST", "GENERAL")}>>, Becomes({d}, "GENERAL"))
    BY <1>1, <1>2 DEF CopyBufferToImage, Barrier, Access, Restore, Transition, Go
<1>4. "TRANSFER_DST" \in Layout
    BY DEF Layout
<1> QED BY <1>3, <1>4, OneImageFits

\* A download.
LEMMA ImageToBufferFits ==
    ASSUME Single, Fields, NEW c, c.src \in Image
    PROVE  Fits(CopyImageToBuffer(c), {c.src})
<1> DEFINE s == c.src
<1>1. LayersOf(0) = First /\ PartsOf(s) = First
    BY OnePart
<1>2. Handle(s) = s
    BY ImagesAre DEF Handle, GpuImage
<1>3. CopyImageToBuffer(c) =
          Effect(<<{Go(s, imageLayout[s], "TRANSFER_SRC")}, {Go(s, "TRANSFER_SRC", "TRANSFER_SRC")},
                   {Go(s, "TRANSFER_SRC", "GENERAL")}>>, Becomes({s}, "GENERAL"))
    BY <1>1, <1>2 DEF CopyImageToBuffer, Barrier, Access, Restore, Transition, Go
<1>4. "TRANSFER_SRC" \in Layout
    BY DEF Layout
<1> QED BY <1>3, <1>4, OneImageFits

\* A shader uses an image in GENERAL: nothing but the caller has seen to it.
LEMMA ShadeFits ==
    ASSUME Single, NEW c, c.src \in Image, imageLayout[c.src] = "GENERAL"
    PROVE  Fits(Shade(c), {c.src})
<1> DEFINE s == c.src
<1> DEFINE s1 == {Go(s, "GENERAL", "GENERAL")}
<1>1. s \in GpuImage /\ Handle(s) = s
    BY ImagesAre DEF Handle
<1>2. Shade(c) = Effect(<<s1>>, imageLayout)
    BY <1>1, OnePart DEF Shade, Access, Transition, Go
<1>3. "GENERAL" \in Layout
    BY DEF Layout
<1>4. /\ Moves(s1, {s}) /\ Takes(s1, s, "GENERAL", "GENERAL")
      /\ \A k, a : k # s => Takes(s1, k, a, a)
    BY <1>1, <1>3, GoOne
<1> HIDE DEF s1
<1>5. Made(<<s1>>, {s})
    BY <1>4, MadeOne
<1>6. \A k \in GpuImage : Runs(<<s1>>, k, imageLayout[k], imageLayout[k])
    BY <1>4, RunsOne
<1> QED BY <1>2, <1>5, <1>6 DEF Fits, Effect

\* A frame: the displayed image comes back to GENERAL, the one of the swapchain ends in PRESENT.
LEMMA BlitFits ==
    ASSUME Single, Fields, displayed # None
    PROVE  Fits(BlitToScreen, {displayed, Screen})
<1> DEFINE h == displayed
<1> DEFINE s1 == {Go(h, "GENERAL", "TRANSFER_SRC"), Go(Screen, imageLayout[Screen], "TRANSFER_DST")}
<1> DEFINE s2 == {Go(h, "TRANSFER_SRC", "TRANSFER_SRC"), Go(Screen, "TRANSFER_DST", "TRANSFER_DST")}
<1> DEFINE s3 == {Go(h, "TRANSFER_SRC", "GENERAL"), Go(Screen, "TRANSFER_DST", "GENERAL")}
<1> DEFINE s4 == {Go(Screen, "GENERAL", "PRESENT")}
<1> DEFINE fields == [Becomes({Copy}, "GENERAL") EXCEPT ![Screen] = "PRESENT"]
<1>1. /\ h \in Image /\ h \in GpuImage /\ h # Screen /\ h # Copy /\ Screen \in GpuImage /\ Copy \notin GpuImage
      /\ Handle(Copy) = h /\ Handle(Screen) = Screen /\ GpuImage \subseteq Slot /\ Screen \in Slot
    BY ImagesAre, ImageAssumption, Distinct DEF Fields, Handle
<1>2. /\ imageLayout[Copy] = "GENERAL" /\ imageLayout[h] = "GENERAL"
      /\ imageLayout[Screen] \in Layout
    BY <1>1 DEF Fields
<1>3. BlitToScreen = Effect(<<s1, s2, s3, s4>>, fields)
    BY <1>1, <1>2, OnePart DEF BlitToScreen, Barrier, Access, Restore, Transition, Go, ScreenLayout
<1>4. {"TRANSFER_SRC", "TRANSFER_DST", "GENERAL", "PRESENT"} \subseteq Layout
    BY DEF Layout
<1> HIDE DEF h
<1>5. /\ Moves(s1, {h, Screen}) /\ Moves(s2, {h, Screen}) /\ Moves(s3, {h, Screen})
      /\ Takes(s1, h, "GENERAL", "TRANSFER_SRC") /\ Takes(s1, Screen, imageLayout[Screen], "TRANSFER_DST")
      /\ Takes(s2, h, "TRANSFER_SRC", "TRANSFER_SRC") /\ Takes(s2, Screen, "TRANSFER_DST", "TRANSFER_DST")
      /\ Takes(s3, h, "TRANSFER_SRC", "GENERAL") /\ Takes(s3, Screen, "TRANSFER_DST", "GENERAL")
      /\ \A i, a : i \notin {h, Screen} => Takes(s1, i, a, a) /\ Takes(s2, i, a, a) /\ Takes(s3, i, a, a)
    BY <1>1, <1>2, <1>4, GoTwo
<1>6. /\ Moves(s4, {Screen}) /\ Takes(s4, Screen, "GENERAL", "PRESENT")
      /\ \A i, a : i # Screen => Takes(s4, i, a, a)
    BY <1>1, <1>4, GoOne
<1> HIDE DEF s1, s2, s3, s4
<1>7. Made(<<s1, s2, s3, s4>>, {h, Screen}) /\ {s1, s2, s3, s4} \subseteq SUBSET Move
    <2>1. Moves(s4, {h, Screen})
        BY <1>6 DEF Moves
    <2> QED BY <1>5, <2>1, MadeFour DEF Moves
<1>8. ASSUME NEW i \in GpuImage PROVE Runs(<<s1, s2, s3, s4>>, i, imageLayout[i], fields[i])
    <2>1. fields[i] = IF i = Screen THEN "PRESENT" ELSE imageLayout[i]
        BY <1>1 DEF Becomes
    <2>2. CASE i = h
        <3>1. /\ Takes(s1, i, imageLayout[i], "TRANSFER_SRC") /\ Takes(s2, i, "TRANSFER_SRC", "TRANSFER_SRC")
              /\ Takes(s3, i, "TRANSFER_SRC", "GENERAL") /\ Takes(s4, i, "GENERAL", fields[i])
            BY <1>1, <1>2, <1>5, <1>6, <2>1, <2>2
        <3> QED BY <1>7, <3>1, RunsFour
    <2>3. CASE i = Screen
        <3>1. /\ Takes(s1, i, imageLayout[i], "TRANSFER_DST") /\ Takes(s2, i, "TRANSFER_DST", "TRANSFER_DST")
              /\ Takes(s3, i, "TRANSFER_DST", "GENERAL") /\ Takes(s4, i, "GENERAL", fields[i])
            BY <1>5, <1>6, <2>1, <2>3
        <3> QED BY <1>7, <3>1, RunsFour
    <2>4. CASE i \notin {h, Screen}
        <3>1. /\ fields[i] = imageLayout[i]
              /\ \A a : Takes(s1, i, a, a) /\ Takes(s2, i, a, a) /\ Takes(s3, i, a, a) /\ Takes(s4, i, a, a)
            BY <1>5, <1>6, <2>1, <2>4
        <3> QED BY <1>7, <3>1, RunsFour
    <2> QED BY <2>2, <2>3, <2>4
<1>9. Fits(Effect(<<s1, s2, s3, s4>>, fields), {h, Screen})
    BY <1>7, <1>8 DEF Fits, Effect
<1> QED BY <1>3, <1>9 DEF h, s1, s2, s3, s4

\* A draw takes its target to COLOR and the render pass to its final layout; the first one
\* also makes the depth image a depth image.
LEMMA DrawFits ==
    ASSUME Fields, Pass
    PROVE  Fits(Draw, {renderTarget, FramebufferOf, Depth})
<1> DEFINE r == renderTarget
<1> DEFINE final == FinalLayout(r)
<1> DEFINE between == IF depthImage = None THEN "UNDEFINED" ELSE "DEPTH"
<1> DEFINE s1 == {Go(r, imageLayout[r], "COLOR")} \cup
                     (IF depthImage = None THEN {} ELSE {Go(Depth, imageLayout[Depth], "DEPTH")})
<1> DEFINE s2 == {Go(Depth, between, "DEPTH")}
<1> DEFINE s3 == {Go(r, "COLOR", final), Go(Depth, "DEPTH", "DEPTH")}
<1> DEFINE fields == [imageLayout EXCEPT ![r] = final, ![Depth] = "DEPTH"]
<1>1. /\ r \in GpuImage /\ Depth \in GpuImage /\ r # Depth /\ GpuImage \subseteq Slot
      /\ Handle(r) = r /\ Handle(Depth) = Depth
    BY ImagesAre, ImageAssumption, Distinct DEF Pass, Handle
<1>2. FramebufferOf = r /\ PassLayout = final /\ final \in Layout
    BY DEF Pass, FramebufferOf, PassLayout, FinalLayout, Layout
<1>3. DepthSteps = IF framebuffer # None THEN << >> ELSE <<s2>>
    BY <1>1 DEF DepthSteps, Transition, Go
<1>4. Draw = Effect(<<s1>> \o DepthSteps \o <<s3>>, fields)
    BY <1>1, <1>2 DEF Draw, Barrier, Access, Transition, Go, TargetLayout
<1>5. /\ imageLayout[r] \in Layout /\ imageLayout[Depth] \in Layout /\ between \in Layout
      /\ "COLOR" \in Layout /\ "DEPTH" \in Layout
    BY <1>1 DEF Fields, Layout
<1> HIDE DEF r, final
<1>6. /\ Moves(s1, {r, Depth}) /\ Takes(s1, r, imageLayout[r], "COLOR")
      /\ Takes(s1, Depth, imageLayout[Depth], between)
      /\ \A i, a : i \notin {r, Depth} => Takes(s1, i, a, a)
    <2>1. CASE depthImage = None
        <3>1. s1 = {Go(r, imageLayout[r], "COLOR")} /\ between = "UNDEFINED"
            BY <2>1
        <3>2. imageLayout[Depth] = "UNDEFINED"
            BY <2>1, Distinct DEF Pass
        <3>3. Moves(s1, {r})
            BY <1>1, <1>5, <3>1, GoOne
        <3>4. Moves(s1, {r, Depth})
            BY <3>3 DEF Moves
        <3> HIDE DEF s1, between
        <3> QED BY <1>1, <1>5, <3>1, <3>2, <3>4, GoOne
    <2>2. CASE depthImage # None
        <3>1. s1 = {Go(r, imageLayout[r], "COLOR"), Go(Depth, imageLayout[Depth], "DEPTH")} /\ between = "DEPTH"
            BY <2>2
        <3> HIDE DEF s1, between
        <3> QED BY <1>1, <1>5, <3>1, GoTwo
    <2> QED BY <2>1, <2>2
<1> HIDE DEF s1
<1>7. /\ Moves(s2, {Depth}) /\ Takes(s2, Depth, between, "DEPTH")
      /\ \A i, a : i # Depth => Takes(s2, i, a, a)
    BY <1>1, <1>5, GoOne
<1> HIDE DEF s2
<1>8. /\ Moves(s3, {r, Depth}) /\ Takes(s3, r, "COLOR", final) /\ Takes(s3, Depth, "DEPTH", "DEPTH")
      /\ \A i, a : i \notin {r, Depth} => Takes(s3, i, a, a)
    BY <1>1, <1>2, <1>5, GoTwo
<1> HIDE DEF s3
<1>9. Made(<<s1>>, {r, Depth}) /\ Made(<<s3>>, {r, Depth})
    BY <1>6, <1>8, MadeOne
<1>10. /\ Made(DepthSteps, {r, Depth}) /\ Runs(DepthSteps, Depth, between, "DEPTH")
       /\ \A i, a : i # Depth => Runs(DepthSteps, i, a, a)
    <2>1. CASE framebuffer # None
        <3>1. DepthSteps = << >> /\ between = "DEPTH"
            BY <1>3, <2>1, Distinct DEF Pass
        <3>2. Made(<< >>, {r, Depth})
            BY DEF Made
        <3> QED BY <3>1, <3>2, RunsNothing
    <2>2. CASE framebuffer = None
        <3>1. DepthSteps = <<s2>>
            BY <1>3, <2>2
        <3>2. Moves(s2, {r, Depth})
            BY <1>7 DEF Moves
        <3>3. Made(<<s2>>, {r, Depth})
            BY <3>2, MadeOne
        <3> HIDE DEF between
        <3> QED BY <1>7, <3>1, <3>3, RunsOne
    <2> QED BY <2>1, <2>2
<1> HIDE DEF between
<1>11. Made(<<s1>> \o DepthSteps \o <<s3>>, {r, Depth})
    BY <1>9, <1>10, MadeOn
<1>12. ASSUME NEW i, NEW a, NEW b, NEW c, NEW d,
              Runs(<<s1>>, i, a, b), Runs(DepthSteps, i, b, c), Runs(<<s3>>, i, c, d)
       PROVE  Runs(<<s1>> \o DepthSteps \o <<s3>>, i, a, d)
    <2>1. <<s1>> \in Seq(SUBSET Move) /\ DepthSteps \in Seq(SUBSET Move) /\ <<s3>> \in Seq(SUBSET Move)
        BY <1>9, <1>10 DEF Made
    <2>2. Runs(<<s1>> \o DepthSteps, i, a, c)
        BY <1>12, <2>1, RunsOn
    <2>3. <<s1>> \o DepthSteps \in Seq(SUBSET Move)
        BY <2>1
    <2> QED BY <1>12, <2>1, <2>2, <2>3, RunsOn
<1>13. ASSUME NEW i \in GpuImage PROVE Runs(<<s1>> \o DepthSteps \o <<s3>>, i, imageLayout[i], fields[i])
    <2>1. fields[i] = IF i = Depth THEN "DEPTH" ELSE IF i = r THEN final ELSE imageLayout[i]
        BY <1>1 DEF Fields
    <2>2. CASE i = r
        <3>1. /\ Runs(<<s1>>, i, imageLayout[i], "COLOR") /\ Runs(DepthSteps, i, "COLOR", "COLOR")
              /\ Runs(<<s3>>, i, "COLOR", fields[i])
            BY <1>1, <1>6, <1>8, <1>10, <2>1, <2>2, RunsOne
        <3> QED BY <1>12, <3>1
    <2>3. CASE i = Depth
        <3>1. /\ Runs(<<s1>>, i, imageLayout[i], between) /\ Runs(DepthSteps, i, between, "DEPTH")
              /\ Runs(<<s3>>, i, "DEPTH", fields[i])
            BY <1>6, <1>8, <1>10, <2>1, <2>3, RunsOne
        <3> QED BY <1>12, <3>1
    <2>4. CASE i \notin {r, Depth}
        <3>1. /\ Runs(<<s1>>, i, imageLayout[i], imageLayout[i]) /\ Runs(DepthSteps, i, imageLayout[i], imageLayout[i])
              /\ Runs(<<s3>>, i, imageLayout[i], fields[i])
            BY <1>6, <1>8, <1>10, <2>1, <2>4, RunsOne
        <3> QED BY <1>12, <3>1
    <2> QED BY <2>2, <2>3, <2>4
<1>14. Draw.steps = <<s1>> \o DepthSteps \o <<s3>> /\ Draw.fields = fields
    BY <1>4 DEF Effect
<1>15. {r, Depth} = {renderTarget, FramebufferOf, Depth}
    BY <1>2 DEF r
<1> QED BY <1>11, <1>13, <1>14, <1>15 DEF Fits

\* The commands of an application.
LEMMA CommandsAre ==
    ASSUME NEW c \in AppCommand
    PROVE  \/ c.kind = "copyImage" /\ c.src \in Image /\ c.dst \in Image /\ c.src # c.dst /\ c.part \in Subresource
           \/ c.kind = "copyBufferToImage" /\ c.src = None /\ c.dst \in Image /\ c.part \in Subresource
           \/ c.kind = "copyImageToBuffer" /\ c.src \in Image /\ c.dst = None
           \/ c.kind = "shade" /\ c.src \in StorageImage \cup (Image \ Target) /\ c.dst = None
           \/ c.kind = "draw"
BY DEF AppCommand, CopyCommand, ShadeCommand, DrawCommand, Command

\* What a command may be when its turn has come.
Sensible(c) ==
    /\ c \in AppCommand \/ (c = BlitCommand /\ displayed # None)
    /\ c.kind = "shade" => imageLayout[c.src] # "UNDEFINED"

\* The command of a frame is a blit.
LEMMA BlitIs == BlitCommand.kind = "blit"
BY DEF BlitCommand, Command

\* What any command records starts from the fields as they are and ends in the fields it leaves.
LEMMA EffectFits ==
    ASSUME Single, Fields, Pass, NEW c, Sensible(c)
    PROVE  Fits(EffectOf(c), Touches(c))
<1> USE ImagesAre
<1>1. CASE c = BlitCommand
    <2>1. EffectOf(c) = BlitToScreen /\ Touches(c) = {displayed, Screen}
        BY <1>1, BlitIs DEF EffectOf, Touches
    <2>2. c \notin AppCommand
        BY <1>1, BlitIs, CommandsAre
    <2> QED BY <2>1, <2>2, BlitFits DEF Sensible
<1>2. CASE c \in AppCommand /\ c.kind = "copyImage"
    <2>1. /\ c.src \in Image /\ c.dst \in Image /\ c.src # c.dst /\ c.part \in Subresource
        BY <1>2, CommandsAre
    <2>2. EffectOf(c) = CopyImage(c) /\ Touches(c) = {c.src, c.dst}
        BY <1>2, <2>1 DEF EffectOf, Touches
    <2> QED BY <2>1, <2>2, CopyImageFits
<1>3. CASE c \in AppCommand /\ c.kind = "copyBufferToImage"
    <2>1. c.src = None /\ c.dst \in Image /\ c.part \in Subresource
        BY <1>3, CommandsAre
    <2>2. EffectOf(c) = CopyBufferToImage(c) /\ Touches(c) = {c.dst}
        BY <1>3, <2>1 DEF EffectOf, Touches
    <2> QED BY <2>1, <2>2, BufferToImageFits
<1>4. CASE c \in AppCommand /\ c.kind = "copyImageToBuffer"
    <2>1. c.src \in Image /\ c.dst = None
        BY <1>4, CommandsAre
    <2>2. EffectOf(c) = CopyImageToBuffer(c) /\ Touches(c) = {c.src}
        BY <1>4, <2>1 DEF EffectOf, Touches
    <2> QED BY <2>1, <2>2, ImageToBufferFits
<1>5. CASE c \in AppCommand /\ c.kind = "shade"
    <2>1. c.src \in StorageImage \cup (Image \ Target) /\ c.dst = None
        BY <1>5, CommandsAre
    <2>2. EffectOf(c) = Shade(c) /\ Touches(c) = {c.src}
        BY <1>5, <2>1 DEF EffectOf, Touches
    <2>3. imageLayout[c.src] = "GENERAL"
        BY <1>5, <2>1 DEF Sensible, Fields
    <2> QED BY <2>1, <2>2, <2>3, ShadeFits
<1>6. CASE c \in AppCommand /\ c.kind = "draw"
    <2>1. EffectOf(c) = Draw /\ Touches(c) = {renderTarget, FramebufferOf, Depth}
        BY <1>6 DEF EffectOf, Touches
    <2> QED BY <2>1, DrawFits
<1> QED BY <1>1, <1>2, <1>3, <1>4, <1>5, <1>6, CommandsAre DEF Sensible

\* What a command makes of the fields.
LEMMA EffectFields ==
    ASSUME Fields, Pass, NEW c, Sensible(c)
    PROVE  /\ EffectOf(c).fields \in [Slot -> Layout]
           /\ \A i \in Image : \/ EffectOf(c).fields[i] = "GENERAL"
                               \/ EffectOf(c).fields[i] = imageLayout[i]
                               \/ EffectOf(c).fields[i] = FinalLayout(i) /\ i \in Target
           /\ \A i \in Image : i \in Touches(c) /\ c.kind \notin {"shade", "blit"} =>
                  EffectOf(c).fields[i] # "UNDEFINED"
           /\ EffectOf(c).fields[Screen] \in {imageLayout[Screen], "PRESENT"}
           /\ EffectOf(c).fields[Copy] \in {imageLayout[Copy], "GENERAL"}
           /\ EffectOf(c).fields[Depth] = IF c.kind = "draw" THEN "DEPTH" ELSE imageLayout[Depth]
<1> USE ImagesAre, ImageAssumption, Distinct
<1>1. imageLayout \in [Slot -> Layout] /\ {"GENERAL", "PRESENT", "DEPTH", "COLOR"} \subseteq Layout
      /\ Copy \notin Image /\ Screen \notin Image /\ Depth \notin Image /\ None \notin Image
    BY DEF Fields, Layout
<1>2. CASE c = BlitCommand
    <2>1. c.kind = "blit"
        BY <1>2, BlitIs
    <2>2. EffectOf(c).fields = [Becomes({Copy}, "GENERAL") EXCEPT ![Screen] = "PRESENT"]
        BY <2>1 DEF EffectOf, BlitToScreen, Effect, ScreenLayout
    <2> QED BY <1>1, <2>1, <2>2 DEF Becomes
<1>3. CASE c \in AppCommand /\ c.kind \in {"copyImage", "copyBufferToImage", "copyImageToBuffer"}
    <2>1. PICK X \in SUBSET Image : EffectOf(c).fields = Becomes(X, "GENERAL") /\ Touches(c) = X
        <3>1. Touches(c) = {c.src, c.dst} \ {None}
            BY <1>3 DEF Touches
        <3>2. {c.src, c.dst} \subseteq Image \cup {None}
            BY <1>3, CommandsAre
        <3>3. EffectOf(c).fields = Becomes(Touches(c), "GENERAL")
            <4>1. CASE c.kind = "copyImage"
                <5>1. Touches(c) = {c.src, c.dst}
                    BY <1>3, <3>1, <4>1, CommandsAre
                <5> QED BY <4>1, <5>1 DEF EffectOf, CopyImage, Effect
            <4>2. CASE c.kind = "copyBufferToImage"
                <5>1. Touches(c) = {c.dst}
                    BY <1>3, <3>1, <4>2, CommandsAre
                <5> QED BY <4>2, <5>1 DEF EffectOf, CopyBufferToImage, Effect
            <4>3. CASE c.kind = "copyImageToBuffer"
                <5>1. Touches(c) = {c.src}
                    BY <1>3, <3>1, <4>3, CommandsAre
                <5> QED BY <4>3, <5>1 DEF EffectOf, CopyImageToBuffer, Effect
            <4> QED BY <1>3, <4>1, <4>2, <4>3
        <3> QED BY <3>1, <3>2, <3>3
    <2> QED BY <1>1, <1>3, <2>1 DEF Becomes
<1>4. CASE c \in AppCommand /\ c.kind = "shade"
    <2>1. EffectOf(c).fields = imageLayout
        BY <1>4 DEF EffectOf, Shade, Effect
    <2> QED BY <1>1, <1>4, <2>1
<1>5. CASE c \in AppCommand /\ c.kind = "draw"
    <2>1. EffectOf(c).fields = [imageLayout EXCEPT ![renderTarget] = FinalLayout(renderTarget), ![Depth] = "DEPTH"]
        BY <1>5 DEF EffectOf, Draw, Effect, TargetLayout
    <2>2. Touches(c) = {renderTarget, FramebufferOf, Depth} /\ FramebufferOf = renderTarget
        BY <1>5 DEF Touches, FramebufferOf, Pass
    <2>3. FinalLayout(renderTarget) \in {"GENERAL", "COLOR"} /\ renderTarget \in Target
        BY DEF FinalLayout, Pass
    <2> QED BY <1>1, <1>5, <2>1, <2>2, <2>3
<1> QED BY <1>2, <1>3, <1>4, <1>5, CommandsAre DEF Sensible

-----------------------------------------------------------------------------
(***************************************************************************)
(* The invariants that do not speak of the GPU                             *)
(***************************************************************************)

\* Command buffers hold well-made steps of images their commit touches, and none outlives it.
Recording ==
    /\ recorded \in [Everyone -> Nat] /\ steps \in [Everyone -> Seq(SUBSET Move)]
    /\ \A e \in Everyone :
           /\ recorded[e] <= Len(commandList[e])
           /\ pc[e] # "record" => steps[e] = << >> /\ recorded[e] = 0
           /\ Made(steps[e], Listed(e))
    /\ \A s \in inFlight : Made(s.steps, s.images)

\* A submission is the last of its executor, or one that the last one waits for.
Own ==
    \A s \in inFlight :
        /\ s.executor \in Everyone /\ s.id \in Before({last[s.executor]})
        /\ s.after \subseteq 1 .. (s.id - 1)

\* A command of the application meets an image.
Meets(c, i) == IF c.kind = "draw" THEN i = renderTarget ELSE i \in {c.src, c.dst}

\* Those are the images it touches.
LEMMA MeetsTouches ==
    ASSUME Pass, NEW c \in AppCommand, NEW i \in Image
    PROVE  Meets(c, i) <=> i \in Touches(c)
<1>1. i # None /\ i # Depth /\ FramebufferOf = renderTarget
    BY ImageAssumption DEF Pass, FramebufferOf
<1>2. c.kind # "blit"
    BY CommandsAre
<1> QED BY <1>1, <1>2 DEF Meets, Touches

\* A shader still to be recorded reads an image that is defined by then.
WrittenFirst ==
    \A e \in Executor : \A n \in DOMAIN commandList[e] :
        n > recorded[e] /\ commandList[e][n].kind = "shade" =>
            \/ imageLayout[commandList[e][n].src] # "UNDEFINED"
            \/ \E m \in (recorded[e] + 1) .. (n - 1) :
                   Meets(commandList[e][m], commandList[e][n].src)

-----------------------------------------------------------------------------
\* Taking the lock moves no list and no target.
LEMMA LockKeeps ==
    ASSUME NEW e, LockChain(e)
    PROVE  /\ commandList' = commandList /\ displayed' = displayed
           /\ renderTarget' = renderTarget /\ framebuffer' = framebuffer
BY DEF LockChain, cpuVars, pipeVars

\* Nor does recording, but for the framebuffer, which the first draw makes.
LEMMA RecordKeeps ==
    ASSUME NEW e, Record(e)
    PROVE  /\ commandList' = commandList /\ displayed' = displayed
           /\ renderTarget' = renderTarget /\ framebuffer' \in {framebuffer, FramebufferOf}
BY DEF Record

\* What a commit touches stays the same until it is over.
LEMMA QuietListed ==
    ASSUME Commits,
           \/ \E i \in Target : SetTarget(i)
           \/ \E e \in Everyone, f \in Executor : Wait(e, f)
           \/ RecreateSwapChain
           \/ \E e \in Everyone : LockChain(e) \/ Record(e)
           \/ GpuStep
           \/ UNCHANGED vars
    PROVE  \A e \in Everyone : Listed(e)' = Listed(e) /\ Graphics(e)' = Graphics(e)
<1> USE DEF cpuVars, pipeVars, commitVars, orderVars
<1>1. commandList' = commandList /\ displayed' = displayed
    <2>1. CASE \E i \in Target : SetTarget(i)
        BY <2>1 DEF SetTarget
    <2>2. CASE \E e \in Everyone, f \in Executor : Wait(e, f)
        BY <2>2 DEF Wait
    <2>3. CASE RecreateSwapChain
        BY <2>3 DEF RecreateSwapChain
    <2>4. CASE \E e \in Everyone : LockChain(e) \/ Record(e)
        BY <2>4, LockKeeps, RecordKeeps
    <2>5. CASE GpuStep
        BY <2>5 DEF GpuStep, Execute
    <2>6. CASE UNCHANGED vars
        BY <2>6 DEF vars
    <2> QED BY <2>1, <2>2, <2>3, <2>4, <2>5, <2>6
<1>2. \/ renderTarget' = renderTarget /\ FramebufferOf' = FramebufferOf
      \/ \A e \in Everyone : \A n \in DOMAIN commandList[e] : commandList[e][n].kind # "draw"
    <2>1. CASE \E i \in Target : SetTarget(i)
        BY <2>1 DEF SetTarget
    <2>2. CASE \E e \in Everyone, f \in Executor : Wait(e, f)
        BY <2>2 DEF Wait, FramebufferOf
    <2>3. CASE RecreateSwapChain
        BY <2>3 DEF RecreateSwapChain, FramebufferOf
    <2>4. CASE \E e \in Everyone : LockChain(e) \/ Record(e)
        <3>1. renderTarget' = renderTarget /\ framebuffer' \in {framebuffer, FramebufferOf}
            BY <2>4, LockKeeps, RecordKeeps
        <3> QED BY <3>1 DEF FramebufferOf
    <2>5. CASE GpuStep
        BY <2>5 DEF GpuStep, Execute, FramebufferOf
    <2>6. CASE UNCHANGED vars
        BY <2>6 DEF vars, FramebufferOf
    <2> QED BY <2>1, <2>2, <2>3, <2>4, <2>5, <2>6
<1> QED BY <1>1, <1>2, ListedSame

\* A commit begins or ends: the others stay as they are.
LEMMA OthersListed ==
    ASSUME Commits, NEW e \in Everyone,
           \/ BeginCommit(e) \/ Submit(e)
           \/ e = Display /\ \E i \in Image : BeginDisplay(i)
    PROVE  \A f \in Everyone \ {e} : /\ pc'[f] = pc[f] /\ commandList'[f] = commandList[f]
                                     /\ Listed(f)' = Listed(f) /\ Graphics(f)' = Graphics(f)
<1> USE ExecutorAssumption DEF cpuVars, pipeVars, orderVars, Everyone
<1>1. /\ \E list : commandList' = [commandList EXCEPT ![e] = list]
      /\ \E x : pc' = [pc EXCEPT ![e] = x]
    BY DEF BeginCommit, Submit, BeginDisplay, Start
<1>2. UNCHANGED <<renderTarget, framebuffer>> /\ (displayed' = displayed \/ e = Display)
    BY DEF BeginCommit, Submit, BeginDisplay, Start
<1>3. ASSUME NEW f \in Everyone \ {e}
      PROVE  /\ pc'[f] = pc[f] /\ commandList'[f] = commandList[f]
             /\ Listed(f)' = Listed(f) /\ Graphics(f)' = Graphics(f)
    <2>1. pc'[f] = pc[f] /\ commandList'[f] = commandList[f]
        BY <1>1 DEF Commits
    <2>2. displayed' = displayed \/ commandList[f] # <<BlitCommand>>
        BY <1>2 DEF Commits
    <2>3. FramebufferOf' = FramebufferOf /\ renderTarget' = renderTarget
        BY <1>2 DEF FramebufferOf
    <2> QED BY <2>1, <2>2, <2>3, ListedSame
<1> QED BY <1>3

\* The commands of a commit, by who commits.
LEMMA ListsAre ==
    ASSUME Commits, NEW e \in Everyone
    PROVE  /\ commandList[e] \in Seq(AppCommand \cup {BlitCommand})
           /\ \A n \in DOMAIN commandList[e] :
                  /\ e \in Executor => commandList[e][n] \in AppCommand
                  /\ e = Display => commandList[e][n] = BlitCommand
<1> USE ExecutorAssumption DEF Everyone
<1>1. AppList \subseteq Seq(AppCommand)
    <2>1. ASSUME NEW list \in AppList PROVE list \in Seq(AppCommand)
        <3>1. PICK n \in 1 .. MaxCommands : list \in [1 .. n -> AppCommand]
            BY DEF AppList
        <3>2. n \in Nat
            BY NumberAssumption
        <3> QED BY <3>1, <3>2
    <2> QED BY <2>1
<1>2. CASE e \in Executor
    <2>1. commandList[e] \in AppList \cup {<< >>}
        BY <1>2 DEF Commits
    <2>2. commandList[e] \in Seq(AppCommand)
        <3>1. << >> \in Seq(AppCommand)
            OBVIOUS
        <3> QED BY <1>1, <2>1, <3>1
    <2>3. \A n \in DOMAIN commandList[e] : commandList[e][n] \in AppCommand
        BY <2>2
    <2>4. commandList[e] \in Seq(AppCommand \cup {BlitCommand})
        BY <2>2
    <2> QED BY ExecutorAssumption, <1>2, <2>3, <2>4
<1>3. CASE e = Display
    <2>1. commandList[e] \in {<<BlitCommand>>, << >>}
        BY <1>3 DEF Commits
    <2>2. \A n \in DOMAIN commandList[e] : commandList[e][n] = BlitCommand
        BY <2>1
    <2>3. commandList[e] \in Seq(AppCommand \cup {BlitCommand})
        <3>1. BlitCommand \in AppCommand \cup {BlitCommand}
            OBVIOUS
        <3> DEFINE commands == AppCommand \cup {BlitCommand}
        <3> HIDE DEF commands
        <3>2. BlitCommand \in commands
            BY <3>1 DEF commands
        <3>3. <<BlitCommand>> \in Seq(commands) /\ << >> \in Seq(commands)
            BY <3>2
        <3> QED BY <2>1, <3>3 DEF commands
    <2> QED BY <1>3, <2>2, <2>3
<1> QED BY <1>2, <1>3

\* The command whose turn it is.
\* The command an executor records next.
Turn(e) == commandList[e][recorded[e] + 1]

\* It is one of its commit, and a shader reads what is defined.
LEMMA TurnIs ==
    ASSUME Commits, Recording, Fields, WrittenFirst, NEW e \in Everyone, Record(e)
    PROVE  /\ recorded[e] + 1 \in DOMAIN commandList[e]
           /\ Sensible(Turn(e)) /\ Touches(Turn(e)) \subseteq Listed(e)
<1> USE ExecutorAssumption DEF Everyone
<1> DEFINE n == recorded[e] + 1
<1>1. n \in DOMAIN commandList[e] /\ recorded[e] \in Nat
    <2>1. /\ commandList[e] \in Seq(AppCommand \cup {BlitCommand})
          /\ recorded[e] \in Nat /\ recorded[e] < Len(commandList[e])
        BY ListsAre DEF Record, Recording
    <2>2. DOMAIN commandList[e] = 1 .. Len(commandList[e]) /\ Len(commandList[e]) \in Nat
        BY <2>1
    <2> QED BY <2>1, <2>2
<1>2. Touches(Turn(e)) \subseteq Listed(e)
    BY <1>1 DEF Turn, Listed, TouchedBy
<1>3. CASE e \in Executor
    <2>1. Turn(e) \in AppCommand
        BY <1>1, <1>3, ListsAre DEF Turn
    <2>2. ASSUME Turn(e).kind = "shade" PROVE imageLayout[Turn(e).src] # "UNDEFINED"
        <3>1. n > recorded[e] /\ (recorded[e] + 1) .. (n - 1) = {}
            BY <1>1
        <3> QED BY <1>1, <1>3, <2>2, <3>1 DEF WrittenFirst, Turn
    <2> QED BY <1>1, <1>2, <2>1, <2>2 DEF Sensible
<1>4. CASE e = Display
    <2>1. Turn(e) = BlitCommand /\ pc[e] = "record"
        BY <1>1, <1>4, ListsAre DEF Turn, Record
    <2>2. displayed # None
        BY <1>4, <2>1 DEF Fields
    <2> QED BY <1>1, <1>2, <2>1, <2>2, BlitIs DEF Sensible
<1> QED BY <1>3, <1>4

\* Only the displayer touches the image of the swapchain.
LEMMA ScreenListed ==
    ASSUME Commits, Pass, NEW e \in Everyone, Screen \in Listed(e)
    PROVE  e = Display
<1>1. SUFFICES ASSUME e \in Executor PROVE FALSE
    BY ExecutorAssumption DEF Everyone
<1>2. PICK n \in DOMAIN commandList[e] : Screen \in Touches(commandList[e][n])
    BY DEF Listed, TouchedBy
<1>3. commandList[e][n] \in AppCommand
    BY <1>1, ListsAre
<1>4. Screen \notin Image /\ Screen # Depth /\ Screen # None /\ renderTarget \in Image /\ FramebufferOf \in Image
    BY ImageAssumption, Distinct DEF Pass, FramebufferOf
<1> HIDE DEF FramebufferOf
<1> QED BY <1>2, <1>3, <1>4, CommandsAre, ImagesAre DEF Touches

-----------------------------------------------------------------------------
\* No step breaks Fields.
LEMMA FieldsStep ==
    ASSUME Commits, Recording, Fields, Pass, WrittenFirst, [Next]_vars
    PROVE  Fields'
<1> USE ExecutorAssumption DEF cpuVars, pipeVars, commitVars, orderVars, Everyone
<1>same. UNCHANGED <<imageLayout, displayed>> /\ pc'[Display] = pc[Display] => Fields'
    BY DEF Fields
<1>1. ASSUME NEW i \in Target, SetTarget(i) PROVE Fields'
    BY <1>1, <1>same DEF SetTarget
<1>2. ASSUME NEW e \in Everyone, NEW f \in Executor, Wait(e, f) PROVE Fields'
    BY <1>2, <1>same DEF Wait
<1>3. ASSUME NEW e \in Executor, BeginCommit(e) PROVE Fields'
    <2>1. pc'[Display] = pc[Display]
        BY <1>3, OthersListed
    <2> QED BY <1>3, <2>1, <1>same DEF BeginCommit
<1>4. ASSUME NEW i \in Image, BeginDisplay(i) PROVE Fields'
    <2>1. CASE displayed = None
        <3>1. /\ i \in StorageImage /\ imageLayout[i] # "UNDEFINED" /\ displayed' = i
              /\ imageLayout' = [imageLayout EXCEPT ![Copy] = imageLayout[i]]
            BY <1>4, <2>1 DEF BeginDisplay
        <3>2. imageLayout[i] = "GENERAL"
            BY <3>1 DEF Fields
        <3>3. i # None /\ Copy \notin Image /\ Screen # Copy /\ Copy \in Slot /\ Image \subseteq Slot
            BY ImagesAre, ImageAssumption, Distinct
        <3>4. "GENERAL" \in Layout
            BY DEF Layout
        <3>5. imageLayout' \in [Slot -> Layout]
            BY <3>1, <3>2, <3>4 DEF Fields
        <3>6. /\ imageLayout'[Copy] = "GENERAL" /\ imageLayout'[Screen] = imageLayout[Screen]
              /\ \A k \in Image : imageLayout'[k] = imageLayout[k]
            BY <3>1, <3>2, <3>3, ImagesAre DEF Fields
        <3> QED BY <3>1, <3>2, <3>3, <3>5, <3>6 DEF Fields
    <2>2. CASE displayed # None
        <3>1. UNCHANGED <<imageLayout, displayed>>
            BY <1>4, <2>2 DEF BeginDisplay
        <3> QED BY <2>2, <3>1 DEF Fields
    <2> QED BY <2>1, <2>2
<1>5. ASSUME RecreateSwapChain PROVE Fields'
    <2>1. imageLayout' = [imageLayout EXCEPT ![Screen] = "UNDEFINED"] /\ UNCHANGED <<displayed, pc>>
        BY <1>5 DEF RecreateSwapChain
    <2>2. Screen \notin Image /\ Screen # Copy /\ Screen \in Slot /\ Image \subseteq Slot /\ Copy \in Slot
        BY ImagesAre, ImageAssumption, Distinct
    <2>3. "UNDEFINED" \in Layout
        BY DEF Layout
    <2>4. /\ imageLayout' \in [Slot -> Layout] /\ imageLayout'[Screen] = "UNDEFINED"
          /\ imageLayout'[Copy] = imageLayout[Copy]
          /\ \A k \in Image : imageLayout'[k] = imageLayout[k]
        BY <2>1, <2>2, <2>3 DEF Fields
    <2>5. displayed # None => displayed \in Image
        BY ImagesAre DEF Fields
    <2> QED BY <2>1, <2>4, <2>5 DEF Fields
<1>6. ASSUME NEW e \in Everyone, LockChain(e) PROVE Fields'
    <2>1. UNCHANGED <<imageLayout, displayed>> /\ pc[e] # "idle"
        BY <1>6 DEF LockChain
    <2>2. pc' = [pc EXCEPT ![e] = "record"]
        BY <1>6 DEF LockChain
    <2>3. pc'[Display] # "idle" => pc[Display] # "idle"
        BY <2>1, <2>2 DEF Commits
    <2> QED BY <2>1, <2>3 DEF Fields
<1>7. ASSUME NEW e \in Everyone, Record(e) PROVE Fields'
    <2>1. imageLayout' = EffectOf(Turn(e)).fields /\ UNCHANGED <<displayed, pc>>
        BY <1>7 DEF Record, Turn
    <2>2. Sensible(Turn(e))
        BY <1>7, TurnIs
    <2>3. /\ imageLayout' \in [Slot -> Layout]
          /\ \A i \in Image : \/ imageLayout'[i] = "GENERAL"
                              \/ imageLayout'[i] = imageLayout[i]
                              \/ imageLayout'[i] = FinalLayout(i) /\ i \in Target
          /\ imageLayout'[Screen] \in {imageLayout[Screen], "PRESENT"}
          /\ imageLayout'[Copy] \in {imageLayout[Copy], "GENERAL"}
        BY <2>1, <2>2, EffectFields
    <2>4. \A i \in Image : imageLayout'[i] \in {"UNDEFINED", "GENERAL"} \cup
                               (IF i \in Target \ StorageImage THEN {"COLOR"} ELSE {})
        BY <2>3 DEF Fields, FinalLayout
    <2>5. ASSUME displayed # None PROVE imageLayout'[displayed] = "GENERAL" /\ imageLayout'[Copy] = "GENERAL"
        <3>1. displayed \in StorageImage /\ displayed \in Image
            BY <2>5, ImagesAre DEF Fields
        <3> QED BY <2>3, <2>5, <3>1 DEF Fields, FinalLayout
    <2> QED BY <2>1, <2>3, <2>4, <2>5 DEF Fields
<1>8. ASSUME NEW e \in Everyone, Submit(e) PROVE Fields'
    <2>1. pc' = [pc EXCEPT ![e] = "idle"] /\ UNCHANGED <<imageLayout, displayed>>
        BY <1>8 DEF Submit
    <2>2. pc'[Display] \in {pc[Display], "idle"}
        BY <2>1 DEF Commits
    <2> QED BY <2>1, <2>2 DEF Fields
<1>9. ASSUME GpuStep PROVE Fields'
    BY <1>9, <1>same DEF GpuStep, Execute
<1>10. ASSUME UNCHANGED vars PROVE Fields'
    BY <1>10, <1>same DEF vars
<1> QED BY <1>1, <1>2, <1>3, <1>4, <1>5, <1>6, <1>7, <1>8, <1>9, <1>10 DEF Next

\* No step breaks Pass.
LEMMA PassStep ==
    ASSUME Single, Commits, Recording, Fields, Pass, WrittenFirst, [Next]_vars
    PROVE  Pass'
<1> USE ExecutorAssumption DEF cpuVars, pipeVars, commitVars, orderVars, Everyone
<1>same. UNCHANGED <<pipeVars, retargets>> /\ imageLayout'[Depth] = imageLayout[Depth] => Pass'
    BY DEF Pass, FinalLayout
<1>1. ASSUME NEW i \in Target, SetTarget(i) PROVE Pass'
    <2>1. framebuffer = None
        BY <1>1 DEF SetTarget, Single, Pass
    <2>2. renderTarget' = i /\ UNCHANGED <<framebuffer, depthImage, imageLayout, retargets>>
        BY <1>1, <2>1 DEF SetTarget
    <2>3. framebuffer' = None
        BY <2>1, <2>2
    <2> QED BY <2>2, <2>3 DEF Pass
<1>2. ASSUME NEW e \in Everyone, NEW f \in Executor, Wait(e, f) PROVE Pass'
    BY <1>2, <1>same DEF Wait
<1>3. ASSUME NEW e \in Executor, BeginCommit(e) PROVE Pass'
    BY <1>3, <1>same DEF BeginCommit, Start
<1>4. ASSUME NEW i \in Image, BeginDisplay(i) PROVE Pass'
    <2>1. imageLayout' \in {imageLayout, [imageLayout EXCEPT ![Copy] = imageLayout[i]]} /\ UNCHANGED <<pipeVars, retargets>>
        BY <1>4 DEF BeginDisplay, Start
    <2>2. imageLayout'[Depth] = imageLayout[Depth]
        BY <2>1, Distinct, ImagesAre DEF Fields
    <2> QED BY <2>1, <2>2, <1>same
<1>5. ASSUME RecreateSwapChain PROVE Pass'
    <2>1. imageLayout' = [imageLayout EXCEPT ![Screen] = "UNDEFINED"] /\ UNCHANGED <<pipeVars, retargets>>
        BY <1>5 DEF RecreateSwapChain
    <2>2. imageLayout'[Depth] = imageLayout[Depth]
        BY <2>1, Distinct, ImagesAre DEF Fields
    <2> QED BY <2>1, <2>2, <1>same
<1>6. ASSUME NEW e \in Everyone, LockChain(e) PROVE Pass'
    BY <1>6, <1>same DEF LockChain
<1>7. ASSUME NEW e \in Everyone, Record(e) PROVE Pass'
    <2>1. imageLayout' = EffectOf(Turn(e)).fields /\ UNCHANGED <<renderTarget, retargets>>
        BY <1>7 DEF Record, Turn
    <2>2. Sensible(Turn(e))
        BY <1>7, TurnIs
    <2>3. imageLayout'[Depth] = IF Turn(e).kind = "draw" THEN "DEPTH" ELSE imageLayout[Depth]
        BY <2>1, <2>2, EffectFields
    <2>4. CASE Turn(e).kind = "draw"
        <3>1. framebuffer' = FramebufferOf /\ passLayout' = PassLayout /\ depthImage' = Depth
            BY <1>7, <2>4 DEF Record, Turn
        <3>2. FramebufferOf = renderTarget /\ PassLayout = FinalLayout(renderTarget)
            BY DEF FramebufferOf, PassLayout, Pass
        <3>3. renderTarget # None
            BY ImageAssumption DEF Pass
        <3>4. FinalLayout(renderTarget)' = FinalLayout(renderTarget)
            BY <2>1 DEF FinalLayout
        <3> QED BY <2>1, <2>3, <2>4, <3>1, <3>2, <3>3, <3>4 DEF Pass, FinalLayout
    <2>5. CASE Turn(e).kind # "draw"
        <3>1. UNCHANGED <<pipeVars, retargets>>
            BY <1>7, <2>5 DEF Record, Turn
        <3> QED BY <2>3, <2>5, <3>1, <1>same
    <2> QED BY <2>4, <2>5
<1>8. ASSUME NEW e \in Everyone, Submit(e) PROVE Pass'
    BY <1>8, <1>same DEF Submit
<1>9. ASSUME GpuStep PROVE Pass'
    BY <1>9, <1>same DEF GpuStep, Execute
<1>10. ASSUME UNCHANGED vars PROVE Pass'
    BY <1>10, <1>same DEF vars
<1> QED BY <1>1, <1>2, <1>3, <1>4, <1>5, <1>6, <1>7, <1>8, <1>9, <1>10 DEF Next

\* No step breaks Recording.
LEMMA RecordingStep ==
    ASSUME Commits, Recording, Fields, Pass, WrittenFirst, Single, [Next]_vars
    PROVE  Recording'
<1> USE ExecutorAssumption DEF cpuVars, pipeVars, commitVars, orderVars, Everyone
<1>same. ASSUME UNCHANGED <<recorded, steps, commandList, inFlight>>,
                \A e \in Everyone : /\ Listed(e)' = Listed(e)
                                    /\ pc'[e] # "record" => pc[e] # "record"
         PROVE  Recording'
    BY <1>same DEF Recording, Made
<1>1. ASSUME NEW i \in Target, SetTarget(i) PROVE Recording'
    BY <1>1, <1>same, QuietListed DEF SetTarget
<1>2. ASSUME NEW e \in Everyone, NEW f \in Executor, Wait(e, f) PROVE Recording'
    BY <1>2, <1>same, QuietListed DEF Wait
\* A commit begins with an empty command buffer.
<1>3. ASSUME NEW e \in Everyone, NEW list \in Seq(AppCommand \cup {BlitCommand}), Start(e, list),
             inFlight' = inFlight,
             \A f \in Everyone \ {e} : /\ pc'[f] = pc[f] /\ commandList'[f] = commandList[f]
                                       /\ Listed(f)' = Listed(f)
      PROVE  Recording'
    <2>1. /\ pc[e] = "idle" /\ commandList' = [commandList EXCEPT ![e] = list]
          /\ UNCHANGED <<recorded, steps>>
        BY <1>3 DEF Start
    <2>2. steps[e] = << >> /\ recorded[e] = 0
        BY <2>1 DEF Recording
    <2>3. commandList'[e] = list /\ Len(list) \in Nat
        BY <2>1 DEF Commits
    <2>4. \A X : Made(<< >>, X)
        BY DEF Made
    <2>5. ASSUME NEW f \in Everyone
          PROVE  /\ recorded'[f] <= Len(commandList'[f])
                 /\ pc'[f] # "record" => steps'[f] = << >> /\ recorded'[f] = 0
                 /\ Made(steps'[f], Listed(f)')
        <3>1. CASE f = e
            BY <2>1, <2>2, <2>3, <2>4, <3>1
        <3>2. CASE f # e
            BY <1>3, <2>1, <3>2 DEF Recording
        <3> QED BY <3>1, <3>2
    <2>6. \A f \in Everyone : Made(steps[f], Listed(f))' <=> Made(steps'[f], Listed(f)')
        BY DEF Made
    <2>7. \A s \in inFlight : Made(s.steps, s.images)' <=> Made(s.steps, s.images)
        BY DEF Made
    <2> QED BY <1>3, <2>1, <2>5, <2>6, <2>7 DEF Recording
<1>4. ASSUME NEW e \in Executor, BeginCommit(e) PROVE Recording'
    <2>1. PICK list \in AppList : Start(e, list)
        BY <1>4 DEF BeginCommit
    <2>2. commandList'[e] = list
        BY <2>1 DEF Start, Commits
    <2>3. list \in Seq(AppCommand \cup {BlitCommand})
        <3>1. PICK n \in 1 .. MaxCommands : list \in [1 .. n -> AppCommand]
            BY <2>1 DEF AppList
        <3>2. n \in Nat
            BY NumberAssumption
        <3> QED BY <3>1, <3>2
    <2>4. inFlight' = inFlight
        BY <2>1 DEF Start
    <2> QED BY <1>3, <1>4, <2>1, <2>3, <2>4, OthersListed
<1>5. ASSUME NEW i \in Image, BeginDisplay(i) PROVE Recording'
    <2>1. Start(Display, <<BlitCommand>>) /\ inFlight' = inFlight
        BY <1>5 DEF BeginDisplay, Start
    <2>2. <<BlitCommand>> \in Seq(AppCommand \cup {BlitCommand})
        <3> DEFINE commands == AppCommand \cup {BlitCommand}
        <3>1. BlitCommand \in commands
            OBVIOUS
        <3> HIDE DEF commands
        <3>2. <<BlitCommand>> \in Seq(commands)
            BY <3>1
        <3> QED BY <3>2 DEF commands
    <2> QED BY <1>3, <1>5, <2>1, <2>2, OthersListed
<1>6. ASSUME RecreateSwapChain PROVE Recording'
    BY <1>6, <1>same, QuietListed DEF RecreateSwapChain
<1>7. ASSUME NEW e \in Everyone, LockChain(e) PROVE Recording'
    <2>1. /\ pc' = [pc EXCEPT ![e] = "record"]
          /\ UNCHANGED <<recorded, steps, commandList, inFlight>>
        BY <1>7 DEF LockChain
    <2>2. \A f \in Everyone : pc'[f] # "record" => pc[f] # "record"
        BY <2>1 DEF Commits
    <2>3. \A f \in Everyone : Listed(f)' = Listed(f)
        BY <1>7, QuietListed
    <2> QED BY <2>1, <2>2, <2>3, <1>same
<1>8. ASSUME NEW e \in Everyone, Record(e) PROVE Recording'
    <2> DEFINE more == EffectOf(Turn(e)).steps
    <2>1. /\ steps' = [steps EXCEPT ![e] = @ \o more]
          /\ recorded' = [recorded EXCEPT ![e] = @ + 1]
          /\ UNCHANGED <<pc, commandList, inFlight>> /\ pc[e] = "record"
        BY <1>8 DEF Record, Turn
    <2>2. /\ recorded[e] + 1 \in DOMAIN commandList[e]
          /\ Sensible(Turn(e)) /\ Touches(Turn(e)) \subseteq Listed(e)
        BY <1>8, TurnIs
    <2>3. Made(more, Listed(e))
        BY <2>2, EffectFits, MadeMore DEF Fits
    <2> HIDE DEF more
    <2>4. Made(steps[e], Listed(e))
        BY DEF Recording
    <2>5. Made(steps[e] \o more, Listed(e))
        BY <2>3, <2>4, MadeOn
    <2>6. recorded[e] + 1 <= Len(commandList[e]) /\ recorded[e] + 1 \in Nat
        <3>1. commandList[e] \in Seq(AppCommand \cup {BlitCommand}) /\ recorded[e] \in Nat
            BY ListsAre DEF Recording
        <3> QED BY <2>2, <3>1
    <2>7. \A f \in Everyone : Listed(f)' = Listed(f)
        BY <1>8, QuietListed
    <2>8. ASSUME NEW f \in Everyone
          PROVE  /\ recorded'[f] <= Len(commandList[f])
                 /\ pc[f] # "record" => steps'[f] = << >> /\ recorded'[f] = 0
                 /\ Made(steps'[f], Listed(f))
        <3>1. CASE f = e
            BY <2>1, <2>5, <2>6, <3>1 DEF Recording
        <3>2. CASE f # e
            BY <2>1, <3>2 DEF Recording
        <3> QED BY <3>1, <3>2
    <2>9. recorded' \in [Everyone -> Nat] /\ steps' \in [Everyone -> Seq(SUBSET Move)]
        <3>1. steps[e] \o more \in Seq(SUBSET Move)
            BY <2>5 DEF Made
        <3> QED BY <2>1, <2>6, <3>1 DEF Recording
    <2>10. \A f \in Everyone : Made(steps[f], Listed(f))' <=> Made(steps'[f], Listed(f)')
        BY DEF Made
    <2>11. \A s \in inFlight : Made(s.steps, s.images)' <=> Made(s.steps, s.images)
        BY DEF Made
    <2> QED BY <2>1, <2>7, <2>8, <2>9, <2>10, <2>11 DEF Recording
<1>9. ASSUME NEW e \in Everyone, Submit(e) PROVE Recording'
    <2> DEFINE new == Submission(e)
    <2>1. /\ inFlight' = inFlight \cup {new}
          /\ commandList' = [commandList EXCEPT ![e] = << >>]
          /\ recorded' = [recorded EXCEPT ![e] = 0] /\ steps' = [steps EXCEPT ![e] = << >>]
        BY <1>9 DEF Submit
    <2>2. new.steps = steps[e] /\ new.images = Listed(e)
        BY DEF Submission, Listed
    <2> HIDE DEF new
    <2>3. \A X : Made(<< >>, X)
        BY DEF Made
    <2>4. ASSUME NEW f \in Everyone
          PROVE  /\ recorded'[f] <= Len(commandList'[f])
                 /\ pc'[f] # "record" => steps'[f] = << >> /\ recorded'[f] = 0
                 /\ Made(steps'[f], Listed(f)')
        <3>1. CASE f = e
            <4>1. recorded'[f] = 0 /\ commandList'[f] = << >> /\ steps'[f] = << >>
                BY <2>1, <3>1 DEF Recording, Commits
            <4> QED BY <2>3, <4>1
        <3>2. CASE f # e
            <4>1. /\ recorded'[f] = recorded[f] /\ steps'[f] = steps[f]
                  /\ pc'[f] = pc[f] /\ commandList'[f] = commandList[f] /\ Listed(f)' = Listed(f)
                BY <1>9, <2>1, <3>2, OthersListed DEF Recording
            <4> QED BY <4>1 DEF Recording
        <3> QED BY <3>1, <3>2
    <2>5. recorded' \in [Everyone -> Nat] /\ steps' \in [Everyone -> Seq(SUBSET Move)]
        BY <2>1 DEF Recording
    <2>6. \A f \in Everyone : Made(steps[f], Listed(f))' <=> Made(steps'[f], Listed(f)')
        BY DEF Made
    <2>7. \A s \in inFlight' : Made(s.steps, s.images)' <=> Made(s.steps, s.images)
        BY DEF Made
    <2>8. \A s \in inFlight' : Made(s.steps, s.images)
        BY <2>1, <2>2 DEF Recording
    <2> QED BY <2>4, <2>5, <2>6, <2>7, <2>8 DEF Recording
<1>10. ASSUME GpuStep PROVE Recording'
    <2>1. inFlight' \subseteq inFlight /\ UNCHANGED <<recorded, steps, commandList, pc>>
        BY <1>10 DEF GpuStep, Execute
    <2>2. \A f \in Everyone : Listed(f)' = Listed(f)
        BY <1>10, QuietListed
    <2> QED BY <2>1, <2>2 DEF Recording, Made
<1>11. ASSUME UNCHANGED vars PROVE Recording'
    BY <1>11, <1>same, QuietListed DEF vars
<1> QED BY <1>1, <1>2, <1>4, <1>5, <1>6, <1>7, <1>8, <1>9, <1>10, <1>11 DEF Next

\* No step breaks Own.
LEMMA OwnStep ==
    ASSUME Commits, Numbered, Own, [Next]_vars
    PROVE  Own'
<1> USE ExecutorAssumption DEF cpuVars, pipeVars, commitVars, orderVars, Everyone
<1>same. UNCHANGED <<inFlight, last>> => Own'
    BY DEF Own, Before, Flying
<1>1. ASSUME NEW i \in Target, SetTarget(i) PROVE Own'
    BY <1>1, <1>same DEF SetTarget
<1>2. ASSUME NEW e \in Everyone, NEW f \in Executor, Wait(e, f) PROVE Own'
    BY <1>2, <1>same DEF Wait
<1>3. ASSUME NEW e \in Executor, BeginCommit(e) PROVE Own'
    BY <1>3, <1>same DEF BeginCommit, Start
<1>4. ASSUME NEW i \in Image, BeginDisplay(i) PROVE Own'
    BY <1>4, <1>same DEF BeginDisplay, Start
<1>5. ASSUME RecreateSwapChain PROVE Own'
    BY <1>5, <1>same DEF RecreateSwapChain
<1>6. ASSUME NEW e \in Everyone, LockChain(e) PROVE Own'
    BY <1>6, <1>same DEF LockChain
<1>7. ASSUME NEW e \in Everyone, Record(e) PROVE Own'
    BY <1>7, <1>same DEF Record
<1>8. ASSUME NEW e \in Everyone, Submit(e) PROVE Own'
    <2>0. PICK new : new = Submission(e)
        OBVIOUS
    <2>1. inFlight' = inFlight \cup {new} /\ last' = [last EXCEPT ![e] = issued + 1]
        BY <1>8, <2>0 DEF Submit, Signalled
    <2>2. /\ new.id = issued + 1 /\ new.executor = e /\ new.after = Covered(e) /\ new.images = Listed(e)
        BY <2>0 DEF Submission, Covered, Listed
    <2>3. new.after \subseteq 1 .. issued
        <3>1. Flying \subseteq 1 .. issued
            BY DEF Flying, Numbered
        <3>2. \A s \in inFlight : s.after \subseteq 1 .. issued
            <4>1. ASSUME NEW s \in inFlight PROVE s.after \subseteq 1 .. issued
                <5>1. s.after \subseteq 1 .. (s.id - 1) /\ s.id \in 1 .. issued
                    BY DEF Own, Numbered
                <5> QED BY <5>1 DEF Numbered
            <4> QED BY <4>1
        <3> QED BY <2>2, <3>1, <3>2 DEF Covered, Before
    <2>4. new.id - 1 = issued
        BY <2>2 DEF Numbered
    <2>5. /\ last'[e] = issued + 1
          /\ \A f \in Everyone : f # e => last'[f] = last[f]
        BY <2>1 DEF Commits
    <2>6. ASSUME NEW s \in inFlight, s.executor \in Everyone, s.id \in Before({last[s.executor]})
          PROVE  s.id \in Before({last[s.executor]})'
        <3>1. CASE s.executor = e
            <4>1. s.id \in new.after
                BY <2>2, <2>6, <3>1 DEF Covered, Before
            <4> QED BY <2>1, <2>2, <2>5, <3>1, <4>1 DEF Before, Flying
        <3>2. CASE s.executor # e
            BY <2>1, <2>5, <2>6, <3>2 DEF Before, Flying
        <3> QED BY <3>1, <3>2
    <2>7. new.id \in Before({last[new.executor]})'
        BY <2>1, <2>2, <2>5 DEF Before, Flying
    <2> QED BY <2>1, <2>2, <2>3, <2>4, <2>6, <2>7 DEF Own
<1>9. ASSUME GpuStep PROVE Own'
    <2>1. PICK s \in inFlight : Execute(s)
        BY <1>9 DEF GpuStep
    <2>2. inFlight' = inFlight \ {s} /\ last' = last /\ s.after \cap Flying = {}
        BY <2>1 DEF Execute, Ready
    <2>3. ASSUME NEW t \in inFlight', t.id \in Before({last[t.executor]})
          PROVE  t.id \in Before({last[t.executor]})'
        BY <2>2, <2>3 DEF Before, Flying
    <2> QED BY <2>2, <2>3 DEF Own
<1>10. ASSUME UNCHANGED vars PROVE Own'
    BY <1>10, <1>same DEF vars
<1> QED BY <1>1, <1>2, <1>3, <1>4, <1>5, <1>6, <1>7, <1>8, <1>9, <1>10 DEF Next

\* Fields only become defined, and lists go on: what was written stays so.
LEMMA WrittenSame ==
    ASSUME Commits, Recording, WrittenFirst,
           \A i \in Image : imageLayout[i] # "UNDEFINED" => imageLayout'[i] # "UNDEFINED",
           \A e \in Executor :
               /\ recorded'[e] = recorded[e] /\ commandList'[e] = commandList[e]
               /\ \A m \in DOMAIN commandList[e] :
                      renderTarget' = renderTarget \/ commandList[e][m].kind # "draw"
    PROVE  WrittenFirst'
<1>1. ASSUME NEW e \in Executor, NEW n \in DOMAIN commandList[e],
             n > recorded[e], commandList[e][n].kind = "shade"
      PROVE  \/ imageLayout'[commandList[e][n].src] # "UNDEFINED"
             \/ \E m \in (recorded[e] + 1) .. (n - 1) :
                    \/ commandList[e][m].kind = "draw" /\ commandList[e][n].src = renderTarget'
                    \/ commandList[e][m].kind # "draw" /\ Meets(commandList[e][m], commandList[e][n].src)
    <2>1. commandList[e] \in Seq(AppCommand \cup {BlitCommand}) /\ commandList[e][n] \in AppCommand
        BY ListsAre DEF Everyone
    <2>2. commandList[e][n].src \in Image
        BY <1>1, <2>1, CommandsAre, ImagesAre
    <2>3. CASE imageLayout[commandList[e][n].src] # "UNDEFINED"
        BY <2>2, <2>3
    <2>4. CASE imageLayout[commandList[e][n].src] = "UNDEFINED"
        <3>1. PICK m \in (recorded[e] + 1) .. (n - 1) : Meets(commandList[e][m], commandList[e][n].src)
            BY <1>1, <2>4 DEF WrittenFirst
        <3>2. m \in DOMAIN commandList[e]
            <4>1. recorded[e] \in Nat
                BY DEF Recording, Everyone
            <4> QED BY <2>1, <3>1, <4>1
        <3> QED BY <3>1, <3>2 DEF Meets
    <2> QED BY <2>3, <2>4
<1>2. ASSUME NEW e \in Executor, NEW n \in DOMAIN commandList'[e],
             n > recorded'[e], commandList'[e][n].kind = "shade"
      PROVE  \/ imageLayout'[commandList'[e][n].src] # "UNDEFINED"
             \/ \E m \in (recorded'[e] + 1) .. (n - 1) :
                    Meets(commandList[e][m], commandList[e][n].src)'
    <2>1. recorded'[e] = recorded[e] /\ commandList'[e] = commandList[e]
        OBVIOUS
    <2> QED BY <1>1, <1>2, <2>1 DEF Meets
<1> QED BY <1>2 DEF WrittenFirst

\* No step breaks WrittenFirst.
LEMMA WrittenStep ==
    ASSUME Commits, Recording, Fields, Pass, WrittenFirst, [Next]_vars
    PROVE  WrittenFirst'
<1> USE ExecutorAssumption DEF cpuVars, pipeVars, commitVars, orderVars, Everyone
<1>app. \A e \in Executor : \A m \in DOMAIN commandList[e] : commandList[e][m] \in AppCommand
    BY ListsAre
<1>same. ASSUME UNCHANGED <<imageLayout, recorded, commandList>>,
                \/ renderTarget' = renderTarget
                \/ \A e \in Executor : \A m \in DOMAIN commandList[e] : commandList[e][m].kind # "draw"
         PROVE  WrittenFirst'
    BY <1>same, WrittenSame
<1>1. ASSUME NEW i \in Target, SetTarget(i) PROVE WrittenFirst'
    BY <1>1, <1>same DEF SetTarget
<1>2. ASSUME NEW e \in Everyone, NEW f \in Executor, Wait(e, f) PROVE WrittenFirst'
    BY <1>2, <1>same DEF Wait
<1>3. ASSUME NEW e \in Executor, BeginCommit(e) PROVE WrittenFirst'
    <2>1. PICK list \in AppList : Written(list) /\ Start(e, list)
        BY <1>3 DEF BeginCommit
    <2>2. /\ pc[e] = "idle" /\ commandList' = [commandList EXCEPT ![e] = list]
          /\ UNCHANGED <<recorded, imageLayout, renderTarget>>
        BY <1>3, <2>1 DEF BeginCommit, Start
    <2>3. commandList'[e] = list /\ recorded[e] = 0 /\ \A f \in Executor : f # e => commandList'[f] = commandList[f]
        BY <2>2 DEF Commits, Recording
    <2>4. list \in Seq(AppCommand)
        <3>1. PICK n \in 1 .. MaxCommands : list \in [1 .. n -> AppCommand]
            BY DEF AppList
        <3>2. n \in Nat
            BY NumberAssumption
        <3> QED BY <3>1, <3>2
    <2>5. ASSUME NEW n \in DOMAIN list, list[n].kind = "shade"
          PROVE  \/ imageLayout[list[n].src] # "UNDEFINED"
                 \/ \E m \in 1 .. (n - 1) : Meets(list[m], list[n].src)
        <3>1. \/ imageLayout[list[n].src] # "UNDEFINED"
              \/ \E m \in 1 .. (n - 1) : list[n].src \in Touches(list[m])
            BY <2>1, <2>5 DEF Written
        <3>2. ASSUME NEW m \in 1 .. (n - 1), list[n].src \in Touches(list[m]) PROVE Meets(list[m], list[n].src)
            <4>1. m \in DOMAIN list /\ list[m] \in AppCommand /\ list[n] \in AppCommand
                BY <2>4
            <4>2. list[n].src \in Image
                BY <2>5, <4>1, CommandsAre, ImagesAre
            <4> QED BY <3>2, <4>1, <4>2, MeetsTouches
        <3> QED BY <3>1, <3>2
    <2>6. ASSUME NEW f \in Executor, NEW n \in DOMAIN commandList'[f],
                 n > recorded[f], commandList'[f][n].kind = "shade"
          PROVE  \/ imageLayout[commandList'[f][n].src] # "UNDEFINED"
                 \/ \E m \in (recorded[f] + 1) .. (n - 1) :
                        Meets(commandList'[f][m], commandList'[f][n].src)
        <3>1. CASE f = e
            BY <2>3, <2>5, <2>6, <3>1
        <3>2. CASE f # e
            BY <2>3, <2>6, <3>2 DEF WrittenFirst
        <3> QED BY <3>1, <3>2
    <2> QED BY <2>2, <2>6 DEF WrittenFirst, Meets
<1>4. ASSUME NEW i \in Image, BeginDisplay(i) PROVE WrittenFirst'
    <2>1. /\ imageLayout' \in {imageLayout, [imageLayout EXCEPT ![Copy] = imageLayout[i]]}
          /\ UNCHANGED <<recorded, renderTarget>>
        BY <1>4 DEF BeginDisplay, Start
    <2>2. \A k \in Image : imageLayout'[k] = imageLayout[k]
        BY <2>1, ImagesAre, ImageAssumption DEF Fields
    <2>3. \A f \in Executor : commandList'[f] = commandList[f]
        BY <1>4, OthersListed
    <2> QED BY <2>1, <2>2, <2>3, WrittenSame
<1>5. ASSUME RecreateSwapChain PROVE WrittenFirst'
    <2>1. /\ imageLayout' = [imageLayout EXCEPT ![Screen] = "UNDEFINED"]
          /\ UNCHANGED <<recorded, commandList, renderTarget>>
        BY <1>5 DEF RecreateSwapChain
    <2>2. \A k \in Image : imageLayout'[k] = imageLayout[k]
        BY <2>1, ImagesAre, ImageAssumption DEF Fields
    <2> QED BY <2>1, <2>2, WrittenSame
<1>6. ASSUME NEW e \in Everyone, LockChain(e) PROVE WrittenFirst'
    BY <1>6, <1>same DEF LockChain
<1>7. ASSUME NEW e \in Everyone, Record(e) PROVE WrittenFirst'
    <2>1. /\ imageLayout' = EffectOf(Turn(e)).fields /\ recorded' = [recorded EXCEPT ![e] = @ + 1]
          /\ UNCHANGED <<commandList, renderTarget>>
        BY <1>7 DEF Record, Turn
    <2>2. Sensible(Turn(e)) /\ recorded[e] + 1 \in DOMAIN commandList[e]
        BY <1>7, TurnIs
    <2>3. \A i \in Image : \/ imageLayout'[i] = "GENERAL" \/ imageLayout'[i] = imageLayout[i]
                           \/ imageLayout'[i] = FinalLayout(i)
        BY <2>1, <2>2, EffectFields
    <2>4. \A i \in Image : imageLayout[i] # "UNDEFINED" => imageLayout'[i] # "UNDEFINED"
        BY <2>3 DEF FinalLayout
    <2>7. ASSUME NEW f \in Executor, NEW n \in DOMAIN commandList[f],
                 n > recorded'[f], commandList[f][n].kind = "shade"
          PROVE  \/ imageLayout'[commandList[f][n].src] # "UNDEFINED"
                 \/ \E m \in (recorded'[f] + 1) .. (n - 1) :
                        Meets(commandList[f][m], commandList[f][n].src)
        <3>1. /\ recorded[f] \in Nat /\ recorded'[f] \in {recorded[f], recorded[f] + 1}
              /\ f # e => recorded'[f] = recorded[f]
              /\ f = e => recorded'[f] = recorded[f] + 1
            BY <2>1 DEF Recording
        <3>2. commandList[f] \in Seq(AppCommand \cup {BlitCommand}) /\ commandList[f][n] \in AppCommand
            BY ListsAre
        <3>3. n \in Nat /\ n > recorded[f]
            BY <2>7, <3>1, <3>2
        <3>4. commandList[f][n].src \in Image
            BY <2>7, <3>2, CommandsAre, ImagesAre
        <3>5. CASE imageLayout[commandList[f][n].src] # "UNDEFINED"
            BY <2>4, <3>4, <3>5
        <3>6. CASE imageLayout[commandList[f][n].src] = "UNDEFINED"
            <4>1. PICK m \in (recorded[f] + 1) .. (n - 1) : Meets(commandList[f][m], commandList[f][n].src)
                BY <2>7, <3>3, <3>6 DEF WrittenFirst
            <4>2. m \in DOMAIN commandList[f] /\ commandList[f][m] \in AppCommand
                <5>1. m \in DOMAIN commandList[f]
                    BY <3>1, <3>2, <3>3, <4>1
                <5> QED BY <5>1, <1>app
            <4>3. CASE m \in (recorded'[f] + 1) .. (n - 1)
                BY <4>1, <4>3
\* The command recorded now was the one that touches the image.
            <4>4. CASE m \notin (recorded'[f] + 1) .. (n - 1)
                <5>1. f = e /\ m = recorded[f] + 1
                    BY <3>1, <3>3, <4>1, <4>4
                <5>2. commandList[f][m] = Turn(e)
                    BY <5>1 DEF Turn
                <5>3. Turn(e).kind # "blit"
                    BY <4>2, <5>2, CommandsAre
                <5>4. Turn(e).kind # "shade"
                    <6>1. ASSUME Turn(e).kind = "shade" PROVE FALSE
                        <7>1. Turn(e).dst = None
                            BY <4>2, <5>2, <6>1, CommandsAre
                        <7>2. Turn(e).src = commandList[f][n].src
                            BY <3>4, <4>1, <5>2, <6>1, <7>1, ImageAssumption DEF Meets
                        <7> QED BY <2>2, <3>6, <6>1, <7>2 DEF Sensible
                    <6> QED BY <6>1
                <5>5. commandList[f][n].src \in Touches(Turn(e))
                    BY <3>4, <4>1, <4>2, <5>2, MeetsTouches
                <5> QED BY <2>1, <2>2, <3>4, <5>3, <5>4, <5>5, EffectFields
            <4> QED BY <4>3, <4>4
        <3> QED BY <3>5, <3>6
    <2> QED BY <2>1, <2>7 DEF WrittenFirst, Meets
<1>8. ASSUME NEW e \in Everyone, Submit(e) PROVE WrittenFirst'
    <2>1. /\ commandList' = [commandList EXCEPT ![e] = << >>] /\ recorded' = [recorded EXCEPT ![e] = 0]
          /\ UNCHANGED <<imageLayout, renderTarget>>
        BY <1>8 DEF Submit
    <2>2. ASSUME NEW f \in Executor, NEW n \in DOMAIN commandList'[f],
                 n > recorded'[f], commandList'[f][n].kind = "shade"
          PROVE  \/ imageLayout[commandList'[f][n].src] # "UNDEFINED"
                 \/ \E m \in (recorded'[f] + 1) .. (n - 1) :
                        Meets(commandList'[f][m], commandList'[f][n].src)
        <3>1. f # e
            BY <2>1, <2>2 DEF Commits
        <3>2. commandList'[f] = commandList[f] /\ recorded'[f] = recorded[f]
            BY <2>1, <3>1 DEF Commits, Recording
        <3> QED BY <2>2, <3>2 DEF WrittenFirst
    <2> QED BY <2>1, <2>2 DEF WrittenFirst, Meets
<1>9. ASSUME GpuStep PROVE WrittenFirst'
    BY <1>9, <1>same DEF GpuStep, Execute
<1>10. ASSUME UNCHANGED vars PROVE WrittenFirst'
    BY <1>10, <1>same DEF vars
<1> QED BY <1>1, <1>2, <1>3, <1>4, <1>5, <1>6, <1>7, <1>8, <1>9, <1>10 DEF Next

-----------------------------------------------------------------------------
(***************************************************************************)
(* The layouts to come                                                     *)
(***************************************************************************)

\* An executor is in the middle of recording steps of an image.
RecordsTo(e, i) == pc[e] = "record" /\ i \in Listed(e)

\* f[0] is the layout of an image and f[n] what the n-th submission leaves it in.  Submissions
\* that are over, or do not touch the image, change nothing; each of the others finds it in
\* what the one before leaves; the command buffer under way goes on from the last one and ends
\* in what the field says.
LinkedBy(f, i) ==
    /\ gpuLayout[i] = [q \in First |-> f[0]]
    /\ \A m, n \in 0 .. issued :
           m <= n /\ (\A s \in inFlight : i \in s.images => s.id <= m \/ n < s.id) => f[m] = f[n]
    /\ \A s \in inFlight : i \in s.images => Runs(s.steps, i, f[s.id - 1], f[s.id])
    /\ \A e \in Everyone : RecordsTo(e, i) => Runs(steps[e], i, f[issued], imageLayout[i])
    /\ (\A e \in Everyone : ~RecordsTo(e, i)) => f[issued] = imageLayout[i]

\* Every image has its layouts to come.
Linked ==
    /\ DOMAIN gpuLayout = GpuImage
    /\ \A i \in GpuImage : \E f \in [0 .. issued -> Layout] : LinkedBy(f, i)

\* One executor at a time records steps of an image.
Alone == \A e, g \in Everyone : \A i : RecordsTo(e, i) /\ RecordsTo(g, i) => e = g

\* The waits and the chain see to it.
LEMMA OrderAlone == Order => Alone
<1> SUFFICES ASSUME Order, NEW e \in Everyone, NEW g \in Everyone, NEW i,
                    RecordsTo(e, i), RecordsTo(g, i), e # g
             PROVE  FALSE
    BY DEF Alone
<1>1. Graphics(e) /\ Graphics(g)
    BY DEF Order, Apart, RecordsTo
<1>2. chainMutex = e /\ chainMutex = g
    BY <1>1 DEF Order, Chained, RecordsTo
<1> QED BY <1>2

\* The same in the next state.
LEMMA OrderAloneNext == Order' => Alone'
BY OrderAlone, PTL

\* What is to be shown of the layouts to come after a step.
LEMMA LinkedNext ==
    ASSUME NEW i \in GpuImage, NEW f \in [0 .. issued' -> Layout],
           gpuLayout'[i] = [q \in First |-> f[0]],
           \A m, n \in 0 .. issued' :
               m <= n /\ (\A s \in inFlight' : i \in s.images => s.id <= m \/ n < s.id) => f[m] = f[n],
           \A s \in inFlight' : i \in s.images => Runs(s.steps, i, f[s.id - 1], f[s.id]),
           \A e \in Everyone : RecordsTo(e, i)' => Runs(steps'[e], i, f[issued'], imageLayout'[i]),
           (\A e \in Everyone : ~RecordsTo(e, i)') => f[issued'] = imageLayout'[i]
    PROVE  (\E g \in [0 .. issued -> Layout] : LinkedBy(g, i))'
<1>1. LinkedBy(f, i)'
    <2>1. \A s \in inFlight' : Runs(s.steps, i, f[s.id - 1], f[s.id])' <=> Runs(s.steps, i, f[s.id - 1], f[s.id])
        BY DEF Runs, Result, Silent
    <2>2. \A e \in Everyone : Runs(steps[e], i, f[issued], imageLayout[i])'
                              <=> Runs(steps'[e], i, f[issued'], imageLayout'[i])
        BY DEF Runs, Result, Silent
    <2> QED BY <2>1, <2>2 DEF LinkedBy, Everyone
<1> QED BY <1>1

\* Whatever starts to record finds the images as its fields say.
LEMMA LinkedStart ==
    ASSUME Linked, Alone', Recording, UNCHANGED <<gpuLayout, issued, inFlight, steps>>,
           \A i \in GpuImage : imageLayout'[i] = imageLayout[i],
           NEW e \in Everyone, pc[e] # "record",
           \A g \in Everyone \ {e} : \A i : RecordsTo(g, i)' <=> RecordsTo(g, i)
    PROVE  Linked'
<1>1. ASSUME NEW i \in GpuImage PROVE (\E g \in [0 .. issued -> Layout] : LinkedBy(g, i))'
    <2>1. PICK f \in [0 .. issued -> Layout] : LinkedBy(f, i)
        BY DEF Linked
    <2>2. ~RecordsTo(e, i) /\ steps[e] = << >>
        BY DEF RecordsTo, Recording
    <2>3. ASSUME NEW g \in Everyone, RecordsTo(g, i)'
          PROVE  Runs(steps[g], i, f[issued], imageLayout[i])
        <3>1. CASE g = e
            <4>1. \A h \in Everyone : ~RecordsTo(h, i)
                <5>1. ASSUME NEW h \in Everyone, RecordsTo(h, i) PROVE FALSE
                    <6>1. h # e /\ RecordsTo(h, i)'
                        BY <2>2, <5>1
                    <6> QED BY <2>3, <3>1, <6>1 DEF Alone, Everyone
                <5> QED BY <5>1
            <4>2. f[issued] = imageLayout[i]
                BY <2>1, <4>1 DEF LinkedBy
            <4> QED BY <2>2, <3>1, <4>2, RunsNothing
        <3>2. CASE g # e
            BY <2>1, <2>3, <3>2 DEF LinkedBy
        <3> QED BY <3>1, <3>2
    <2>4. (\A g \in Everyone : ~RecordsTo(g, i)') => f[issued] = imageLayout[i]
        BY <2>1, <2>2 DEF LinkedBy
    <2>5. imageLayout'[i] = imageLayout[i] /\ issued' = issued /\ inFlight' = inFlight /\ steps' = steps
          /\ gpuLayout' = gpuLayout
        OBVIOUS
    <2>6. /\ gpuLayout[i] = [q \in First |-> f[0]]
          /\ \A m, n \in 0 .. issued :
                 m <= n /\ (\A s \in inFlight : i \in s.images => s.id <= m \/ n < s.id) => f[m] = f[n]
          /\ \A s \in inFlight : i \in s.images => Runs(s.steps, i, f[s.id - 1], f[s.id])
        BY <2>1 DEF LinkedBy
    <2>7. /\ f \in [0 .. issued' -> Layout] /\ gpuLayout'[i] = [q \in First |-> f[0]]
          /\ \A m, n \in 0 .. issued' :
                 m <= n /\ (\A s \in inFlight' : i \in s.images => s.id <= m \/ n < s.id) => f[m] = f[n]
        BY <2>5, <2>6
    <2>8. /\ \A s \in inFlight' : i \in s.images => Runs(s.steps, i, f[s.id - 1], f[s.id])
        BY <2>5, <2>6
    <2>9. /\ \A g \in Everyone : RecordsTo(g, i)' => Runs(steps'[g], i, f[issued'], imageLayout'[i])
          /\ (\A g \in Everyone : ~RecordsTo(g, i)') => f[issued'] = imageLayout'[i]
        BY <2>3, <2>4, <2>5
    <2> QED BY <2>7, <2>8, <2>9, LinkedNext
<1> QED BY <1>1 DEF Linked, GpuImage

\* Steps that name other images change nothing of this one.
LEMMA SilentSteps ==
    ASSUME NEW X, NEW sq, Made(sq, X), NEW i, i \notin X
    PROVE  /\ \A a : Result(sq, Len(sq), i, a, a)
           /\ \A a, b : Result(sq, Len(sq), i, a, b) => a = b
<1>1. \A n \in 1 .. Len(sq) : \A t \in sq[n] : t.image # i
    <2>1. DOMAIN sq = 1 .. Len(sq)
        BY DEF Made
    <2> QED BY <2>1 DEF Made, Moves
<1> QED BY <1>1 DEF Result, Silent

\* Recording goes on from the fields, which nobody else moves meanwhile.
LEMMA LinkedRecord ==
    ASSUME Single, IInv, Fields, Pass, Recording, WrittenFirst, Linked, NEW e \in Everyone, Record(e)
    PROVE  Linked'
<1> DEFINE effect == EffectOf(Turn(e))
<1>1. /\ imageLayout' = effect.fields /\ steps' = [steps EXCEPT ![e] = @ \o effect.steps]
      /\ UNCHANGED <<gpuLayout, issued, inFlight, pc>> /\ pc[e] = "record"
    BY DEF Record, Turn, cpuVars, orderVars
<1>2. Commits
    BY DEF IInv
<1>3. Sensible(Turn(e)) /\ Touches(Turn(e)) \subseteq Listed(e)
    BY <1>2, TurnIs
<1>4. Fits(effect, Touches(Turn(e)))
    BY <1>3, EffectFits
<1>5. effect.fields[Screen] \in {imageLayout[Screen], "PRESENT"}
    BY <1>3, EffectFields
<1> HIDE DEF effect
<1>6. \A g \in Everyone : \A i : RecordsTo(g, i)' <=> RecordsTo(g, i)
    BY <1>1, <1>2, QuietListed DEF RecordsTo
<1>7. Made(effect.steps, Touches(Turn(e))) /\ \A i \in GpuImage : Runs(effect.steps, i, imageLayout[i], effect.fields[i])
    BY <1>4 DEF Fits
<1>8. steps[e] \in Seq(SUBSET Move) /\ effect.steps \in Seq(SUBSET Move)
    BY <1>7 DEF Recording, Made
<1>9. steps'[e] = steps[e] \o effect.steps /\ \A g \in Everyone : g # e => steps'[g] = steps[g]
    BY <1>1 DEF Recording
<1>10. ASSUME NEW i \in GpuImage PROVE (\E g \in [0 .. issued -> Layout] : LinkedBy(g, i))'
    <2>1. PICK f \in [0 .. issued -> Layout] : LinkedBy(f, i)
        BY DEF Linked
    <2>2. ~RecordsTo(e, i) => imageLayout'[i] = imageLayout[i]
        <3>1. ASSUME ~RecordsTo(e, i) PROVE imageLayout'[i] = imageLayout[i]
            <4>1. i \notin Touches(Turn(e))
                BY <1>1, <1>3, <3>1 DEF RecordsTo
            <4>2. Result(effect.steps, Len(effect.steps), i, imageLayout[i], effect.fields[i])
                BY <1>7 DEF Runs
            <4> QED BY <1>1, <1>7, <4>1, <4>2, SilentSteps
        <3> QED BY <3>1
    <2>3. ASSUME NEW g \in Everyone, RecordsTo(g, i)'
          PROVE  Runs(steps'[g], i, f[issued], imageLayout'[i])
        <3>1. RecordsTo(g, i)
            BY <1>6, <2>3
        <3>2. Runs(steps[g], i, f[issued], imageLayout[i])
            BY <2>1, <3>1 DEF LinkedBy
        <3>3. CASE g = e
            <4>1. Runs(effect.steps, i, imageLayout[i], effect.fields[i])
                BY <1>7
            <4>2. Runs(steps[e] \o effect.steps, i, f[issued], effect.fields[i])
                BY <1>8, <3>2, <3>3, <4>1, RunsOn
            <4> QED BY <1>1, <1>9, <3>3, <4>2
        <3>4. CASE g # e
            <4>1. ~RecordsTo(e, i)
                BY <3>1, <3>4, OrderAlone DEF IInv, Alone
            <4> QED BY <1>9, <2>2, <3>2, <3>4, <4>1
        <3> QED BY <3>3, <3>4
    <2>4. (\A g \in Everyone : ~RecordsTo(g, i)') => f[issued] = imageLayout'[i]
        BY <1>6, <2>1, <2>2 DEF LinkedBy
    <2>5. issued' = issued /\ inFlight' = inFlight /\ gpuLayout' = gpuLayout
        BY <1>1
    <2>6. /\ gpuLayout[i] = [q \in First |-> f[0]]
          /\ \A m, n \in 0 .. issued :
                 m <= n /\ (\A s \in inFlight : i \in s.images => s.id <= m \/ n < s.id) => f[m] = f[n]
          /\ \A s \in inFlight : i \in s.images => Runs(s.steps, i, f[s.id - 1], f[s.id])
        BY <2>1 DEF LinkedBy
    <2>7. f \in [0 .. issued' -> Layout] /\ gpuLayout'[i] = [q \in First |-> f[0]]
        BY <2>5, <2>6
    <2>8. \A m, n \in 0 .. issued' :
              m <= n /\ (\A s \in inFlight' : i \in s.images => s.id <= m \/ n < s.id) => f[m] = f[n]
        BY <2>5, <2>6
    <2>9. \A s \in inFlight' : i \in s.images => Runs(s.steps, i, f[s.id - 1], f[s.id])
        BY <2>5, <2>6
    <2>10. \A g \in Everyone : RecordsTo(g, i)' => Runs(steps'[g], i, f[issued'], imageLayout'[i])
        BY <2>3, <2>5
    <2>11. /\ (\A g \in Everyone : ~RecordsTo(g, i)') => f[issued'] = imageLayout'[i]
        BY <2>4, <2>5, <2>6
    <2> QED BY <2>7, <2>8, <2>9, <2>10, <2>11, LinkedNext
<1> QED BY <1>1, <1>10 DEF Linked, GpuImage

\* A submission adds the layout its command buffer ends in.
LEMMA LinkedSubmit ==
    ASSUME IInv, Fields, Pass, Recording, Linked, NEW e \in Everyone, Submit(e)
    PROVE  Linked'
<1>0. PICK new : new = Submission(e)
    OBVIOUS
<1>1. /\ pc[e] = "record" /\ pc' = [pc EXCEPT ![e] = "idle"]
      /\ inFlight' = inFlight \cup {new} /\ issued' = issued + 1
      /\ steps' = [steps EXCEPT ![e] = << >>]
      /\ UNCHANGED <<gpuLayout, imageLayout>>
    BY <1>0 DEF Submit, cpuVars
<1>2. new.id = issued + 1 /\ new.steps = steps[e] /\ new.images = Listed(e)
    BY <1>0 DEF Submission, Listed
<1>3. Commits /\ issued \in Nat /\ \A s \in inFlight : s.id \in 1 .. issued
    BY DEF IInv, Numbered
<1>4. /\ \A i : ~RecordsTo(e, i)'
      /\ \A g \in Everyone : g # e => /\ steps'[g] = steps[g]
                                     /\ \A i : RecordsTo(g, i)' <=> RecordsTo(g, i)
    <2>1. \A i : ~RecordsTo(e, i)'
        BY <1>1, <1>3 DEF RecordsTo, Commits
    <2>2. \A g \in Everyone : g # e => steps'[g] = steps[g]
        BY <1>1 DEF Recording
    <2>3. \A g \in Everyone : g # e => \A i : RecordsTo(g, i)' <=> RecordsTo(g, i)
        BY <1>3, OthersListed DEF RecordsTo
    <2> QED BY <2>1, <2>2, <2>3
<1>5. ASSUME NEW i \in GpuImage PROVE (\E g \in [0 .. issued -> Layout] : LinkedBy(g, i))'
    <2>1. PICK f \in [0 .. issued -> Layout] : LinkedBy(f, i)
        BY DEF Linked
    <2>2. /\ gpuLayout[i] = [q \in First |-> f[0]]
          /\ \A m, n \in 0 .. issued :
                 m <= n /\ (\A s \in inFlight : i \in s.images => s.id <= m \/ n < s.id) => f[m] = f[n]
          /\ \A s \in inFlight : i \in s.images => Runs(s.steps, i, f[s.id - 1], f[s.id])
        BY <2>1 DEF LinkedBy
    <2>3. imageLayout[i] \in Layout
        BY ImagesAre DEF Fields
\* What the new submission leaves the image in.
    <2>4. PICK l \in Layout : /\ i \in Listed(e) => l = imageLayout[i]
                              /\ i \notin Listed(e) => l = f[issued]
        BY <1>3, <2>3
    <2>5. PICK h \in [0 .. (issued + 1) -> Layout] :
              h[issued + 1] = l /\ \A k \in 0 .. issued : h[k] = f[k]
        <3> DEFINE h == [k \in 0 .. (issued + 1) |-> IF k = issued + 1 THEN l ELSE f[k]]
        <3>1. \A k \in 0 .. issued : k \in 0 .. (issued + 1) /\ k # issued + 1
            BY <1>3
        <3>2. \A k \in 0 .. (issued + 1) : k # issued + 1 => k \in 0 .. issued
            BY <1>3
        <3>3. issued + 1 \in 0 .. (issued + 1)
            BY <1>3
        <3>4. h \in [0 .. (issued + 1) -> Layout]
            BY <3>2
        <3>5. h[issued + 1] = l /\ \A k \in 0 .. issued : h[k] = f[k]
            BY <3>1, <3>3
        <3> HIDE DEF h
        <3> QED BY <3>4, <3>5
    <2>6. gpuLayout'[i] = [q \in First |-> h[0]]
        <3>1. 0 \in 0 .. issued
            BY <1>3
        <3> QED BY <1>1, <2>2, <2>5, <3>1
    <2>7. ASSUME NEW m \in 0 .. (issued + 1), NEW n \in 0 .. (issued + 1), m <= n,
                 \A s \in inFlight' : i \in s.images => s.id <= m \/ n < s.id
          PROVE  h[m] = h[n]
        <3>1. CASE n \in 0 .. issued
            <4>1. m \in 0 .. issued
                BY <1>3, <2>7, <3>1
            <4> QED BY <1>1, <2>2, <2>5, <2>7, <3>1, <4>1
        <3>2. CASE n = issued + 1 /\ m # n
            <4>1. m \in 0 .. issued /\ issued \in 0 .. issued
                BY <1>3, <2>7, <3>2
            <4>2. i \notin Listed(e)
                BY <1>1, <1>2, <1>3, <2>7, <3>2, <4>1
            <4>3. \A s \in inFlight : i \in s.images => s.id <= m \/ issued < s.id
                BY <1>1, <1>3, <2>7, <3>2
            <4>4. f[m] = f[issued]
                BY <1>3, <2>2, <4>1, <4>3
            <4> QED BY <2>4, <2>5, <3>2, <4>1, <4>2, <4>4
        <3> QED BY <1>3, <2>7, <3>1, <3>2
    <2>8. ASSUME NEW s \in inFlight', i \in s.images
          PROVE  Runs(s.steps, i, h[s.id - 1], h[s.id])
        <3>1. CASE s \in inFlight
            <4>1. s.id - 1 \in 0 .. issued /\ s.id \in 0 .. issued
                BY <1>3, <3>1
            <4> QED BY <2>2, <2>5, <2>8, <3>1, <4>1
        <3>2. CASE s = new
            <4>1. Runs(steps[e], i, f[issued], imageLayout[i])
                BY <1>1, <1>2, <2>1, <2>8, <3>2 DEF LinkedBy, RecordsTo
            <4>2. issued \in 0 .. issued /\ new.id - 1 = issued
                BY <1>2, <1>3
            <4> QED BY <1>2, <2>4, <2>5, <2>8, <3>2, <4>1, <4>2
        <3> QED BY <1>1, <3>1, <3>2
    <2>9. ASSUME NEW g \in Everyone, RecordsTo(g, i)'
          PROVE  Runs(steps'[g], i, h[issued + 1], imageLayout[i])
        <3>1. g # e /\ RecordsTo(g, i) /\ steps'[g] = steps[g]
            BY <1>4, <2>9
        <3>2. ~RecordsTo(e, i)
            BY <3>1, OrderAlone DEF IInv, Alone
        <3>3. i \notin Listed(e)
            BY <1>1, <3>2 DEF RecordsTo
        <3>4. h[issued + 1] = f[issued]
            BY <2>4, <2>5, <3>3
        <3> QED BY <2>1, <3>1, <3>4 DEF LinkedBy
    <2>10. ASSUME \A g \in Everyone : ~RecordsTo(g, i)' PROVE h[issued + 1] = imageLayout[i]
        <3>1. CASE i \in Listed(e)
            BY <2>4, <2>5, <3>1
        <3>2. CASE i \notin Listed(e)
            <4>1. \A g \in Everyone : ~RecordsTo(g, i)
                BY <1>4, <2>10, <3>2 DEF RecordsTo
            <4> QED BY <2>1, <2>4, <2>5, <3>2, <4>1 DEF LinkedBy
        <3> QED BY <3>1, <3>2
    <2>12. issued' = issued + 1 /\ imageLayout' = imageLayout
        BY <1>1
    <2>13. h \in [0 .. issued' -> Layout]
        BY <2>5, <2>12
    <2>14. \A m, n \in 0 .. issued' :
               m <= n /\ (\A s \in inFlight' : i \in s.images => s.id <= m \/ n < s.id) => h[m] = h[n]
        BY <2>7, <2>12
    <2>15. \A g \in Everyone : RecordsTo(g, i)' => Runs(steps'[g], i, h[issued'], imageLayout'[i])
        BY <2>9, <2>12
    <2>16. /\ (\A g \in Everyone : ~RecordsTo(g, i)') => h[issued'] = imageLayout'[i]
        BY <2>10, <2>12
    <2> QED BY <2>6, <2>8, <2>13, <2>14, <2>15, <2>16, LinkedNext
<1> QED BY <1>1, <1>5 DEF Linked, GpuImage

\* A submission that can start is the first that touches its images.
LEMMA ReadyFirst ==
    ASSUME IInv, Own, NEW s \in Ready, NEW i, i \in s.images, NEW u \in inFlight, u # s, i \in u.images
    PROVE  s.id < u.id
<1>1. s \in inFlight /\ s.after \cap Flying = {}
    BY DEF Ready
<1>2. s.id \in u.after \/ u.id \in s.after
    BY <1>1 DEF IInv, Order, OrderedUse
<1>3. u.id \in Flying
    BY DEF Flying
<1>4. s.id \in 1 .. (u.id - 1) /\ u.id \in Nat
    <2>1. s.id \in u.after /\ u.after \subseteq 1 .. (u.id - 1)
        BY <1>1, <1>2, <1>3 DEF Own
    <2>2. u.id \in 1 .. issued /\ issued \in Nat
        BY DEF IInv, Numbered
    <2> QED BY <2>1, <2>2
<1> QED BY <1>4

\* What a submission finds its images in, when it can start.
LEMMA ReadyFinds ==
    ASSUME IInv, Own, NEW s \in Ready, NEW i \in GpuImage, i \in s.images,
           NEW f \in [0 .. issued -> Layout], LinkedBy(f, i)
    PROVE  /\ gpuLayout[i] = [q \in First |-> f[s.id - 1]]
           /\ Runs(s.steps, i, f[s.id - 1], f[s.id])
<1>1. s \in inFlight /\ s.id \in 1 .. issued /\ issued \in Nat
    BY DEF Ready, IInv, Numbered
<1>2. \A u \in inFlight : i \in u.images => u.id <= 0 \/ s.id - 1 < u.id
    <2>1. ASSUME NEW u \in inFlight, i \in u.images PROVE s.id <= u.id
        <3>1. CASE u = s
            BY <1>1, <3>1
        <3>2. CASE u # s
            <4>1. s.id < u.id /\ u.id \in 1 .. issued
                BY <2>1, <3>2, ReadyFirst DEF IInv, Numbered
            <4> QED BY <1>1, <4>1
        <3> QED BY <3>1, <3>2
    <2>2. \A u \in inFlight : u.id \in 1 .. issued
        BY DEF IInv, Numbered
    <2> QED BY <1>1, <2>1, <2>2
<1>3. 0 \in 0 .. issued /\ s.id - 1 \in 0 .. issued /\ 0 <= s.id - 1
    BY <1>1
<1>4. f[0] = f[s.id - 1]
    BY <1>2, <1>3 DEF LinkedBy
<1> QED BY <1>1, <1>4 DEF LinkedBy

\* What a submission makes of an image when it is executed.
\* A submission leaves an image in a layout.
EndsIn(s, i, l) == \A q \in First : LayoutAfter(s, Len(s.steps), i, q) = l

\* A submission finds an image in a and takes it to b, or does not touch it.
Turns(s, i, a, b) ==
    /\ gpuLayout[i] = [q \in First |-> a]
    /\ i \in s.images => Runs(s.steps, i, a, b)
    /\ i \notin s.images => a = b

\* What a submission makes of an image when it is executed.
LEMMA ExecuteLeaves ==
    ASSUME Recording, NEW s \in inFlight, NEW i, NEW a, NEW b, Turns(s, i, a, b)
    PROVE  EndsIn(s, i, b)
<1>0. /\ gpuLayout[i] = [q \in First |-> a]
      /\ i \in s.images => Runs(s.steps, i, a, b)
      /\ i \notin s.images => a = b
    BY DEF Turns
<1>1. Made(s.steps, s.images)
    BY DEF Recording
<1>2. Result(s.steps, Len(s.steps), i, a, b)
    BY <1>0, <1>1, SilentSteps DEF Runs
<1>3. s.steps \in Seq(SUBSET Move)
    BY <1>1 DEF Made
<1>4. Len(s.steps) \in 0 .. Len(s.steps)
    BY <1>3
<1>5. \A k \in DOMAIN s.steps : \A t, u \in s.steps[k] : t.image = i /\ u.image = i => t = u
    BY <1>1 DEF Made, Moves
<1>6. ASSUME NEW q \in First PROVE LayoutAfter(s, Len(s.steps), i, q) = b
    <2>1. gpuLayout[i][q] = a
        BY <1>0
    <2>2. PICK n : n = Len(s.steps)
        OBVIOUS
    <2>3. Result(s.steps, n, i, gpuLayout[i][q], b) /\ n \in 0 .. Len(s.steps)
        BY <1>2, <1>4, <2>1, <2>2
    <2>4. LayoutAfter(s, n, i, q) = b
        <3>1. Calm(s, i)
            BY <1>3, <1>5 DEF Calm
        <3> QED BY <2>3, <3>1, LayoutAfterIs, Zenon
    <2> QED BY <2>2, <2>4
<1> QED BY <1>6 DEF EndsIn

\* A submission that executes is the first of its images: what it leaves them in is where the
\* others start.
LEMMA LinkedExecute ==
    ASSUME Single, IInv, Own, Recording, Linked, NEW s \in inFlight, Execute(s)
    PROVE  Linked'
<1>1. /\ s \in Ready /\ inFlight' = inFlight \ {s}
      /\ gpuLayout' = [i \in GpuImage |-> [q \in PartsOf(i) |-> LayoutAfter(s, Len(s.steps), i, q)]]
      /\ UNCHANGED <<imageLayout, steps, issued, pc>>
    BY DEF Execute, cpuVars, commitVars
<1>2. \A g \in Everyone : \A i : RecordsTo(g, i)' <=> RecordsTo(g, i)
    <2>1. GpuStep
        BY DEF GpuStep
    <2> QED BY <1>1, <2>1, QuietListed DEF RecordsTo, IInv
<1>3. s.id \in 1 .. issued /\ issued \in Nat
    BY DEF IInv, Numbered
<1>4. ASSUME NEW i \in GpuImage PROVE (\E g \in [0 .. issued -> Layout] : LinkedBy(g, i))'
    <2>1. PICK f \in [0 .. issued -> Layout] : LinkedBy(f, i)
        BY DEF Linked
    <2>2. /\ gpuLayout[i] = [q \in First |-> f[0]]
          /\ \A m, n \in 0 .. issued :
                 m <= n /\ (\A u \in inFlight : i \in u.images => u.id <= m \/ n < u.id) => f[m] = f[n]
          /\ \A u \in inFlight : i \in u.images => Runs(u.steps, i, f[u.id - 1], f[u.id])
          /\ \A g \in Everyone : RecordsTo(g, i) => Runs(steps[g], i, f[issued], imageLayout[i])
          /\ (\A g \in Everyone : ~RecordsTo(g, i)) => f[issued] = imageLayout[i]
        BY <2>1 DEF LinkedBy
    <2>3. gpuLayout'[i] = [q \in First |-> LayoutAfter(s, Len(s.steps), i, q)]
        BY <1>1, OnePart
\* The layouts that are still to come.
    <2>4. PICK h \in [0 .. issued -> Layout] :
              /\ gpuLayout'[i] = [q \in First |-> h[0]]
              /\ i \in s.images => \A k \in 0 .. issued : h[k] = IF k <= s.id THEN f[s.id] ELSE f[k]
              /\ i \notin s.images => h = f
        <3>1. CASE i \in s.images
            <4> DEFINE h == [k \in 0 .. issued |-> IF k <= s.id THEN f[s.id] ELSE f[k]]
            <4>1. gpuLayout[i] = [q \in First |-> f[s.id - 1]] /\ Runs(s.steps, i, f[s.id - 1], f[s.id])
                BY <1>1, <2>1, <3>1, ReadyFinds
            <4>2. gpuLayout'[i] = [q \in First |-> f[s.id]]
                <5>1. \A q \in First : LayoutAfter(s, Len(s.steps), i, q) = f[s.id]
                    <6>1. Turns(s, i, f[s.id - 1], f[s.id])
                        BY <3>1, <4>1 DEF Turns
                    <6>2. EndsIn(s, i, f[s.id])
                        BY <6>1, ExecuteLeaves, Zenon
                    <6> QED BY <6>2 DEF EndsIn
                <5> QED BY <2>3, <5>1
            <4>3. 0 \in 0 .. issued /\ 0 <= s.id /\ s.id \in 0 .. issued
                BY <1>3
            <4>4. h \in [0 .. issued -> Layout]
                BY <4>3
            <4>5. h[0] = f[s.id] /\ \A k \in 0 .. issued : h[k] = IF k <= s.id THEN f[s.id] ELSE f[k]
                BY <4>3
            <4> HIDE DEF h
            <4> QED BY <3>1, <4>2, <4>4, <4>5
        <3>2. CASE i \notin s.images
            <4>1. gpuLayout'[i] = [q \in First |-> f[0]]
                <5>1. \A q \in First : LayoutAfter(s, Len(s.steps), i, q) = f[0]
                    <6>1. Turns(s, i, f[0], f[0])
                        BY <2>2, <3>2 DEF Turns
                    <6>2. EndsIn(s, i, f[0])
                        BY <6>1, ExecuteLeaves, Zenon
                    <6> QED BY <6>2 DEF EndsIn
                <5> QED BY <2>3, <5>1
            <4> QED BY <3>2, <4>1
        <3> QED BY <3>1, <3>2
    <2>5. h[issued] = f[issued]
        <3>1. issued \in 0 .. issued
            BY <1>3
        <3>2. CASE issued <= s.id
            <4>1. issued = s.id
                BY <1>3, <3>2
            <4> QED BY <2>4, <3>1, <4>1
        <3>3. CASE ~(issued <= s.id)
            BY <2>4, <3>1, <3>3
        <3> QED BY <3>2, <3>3
    <2>6. ASSUME NEW m \in 0 .. issued, NEW n \in 0 .. issued, m <= n,
                 \A u \in inFlight' : i \in u.images => u.id <= m \/ n < u.id
          PROVE  h[m] = h[n]
        <3>1. CASE i \notin s.images
            <4>1. \A u \in inFlight : i \in u.images => u.id <= m \/ n < u.id
                BY <1>1, <2>6, <3>1
            <4> QED BY <2>2, <2>4, <2>6, <3>1, <4>1
        <3>2. CASE i \in s.images /\ n <= s.id
            <4>1. m <= s.id
                BY <1>3, <2>6, <3>2
            <4> QED BY <2>4, <3>2, <4>1
        <3>3. CASE i \in s.images /\ s.id < m
            <4>1. ~(m <= s.id) /\ ~(n <= s.id)
                BY <1>3, <2>6, <3>3
            <4>2. \A u \in inFlight : i \in u.images => u.id <= m \/ n < u.id
                <5>1. s.id <= m
                    BY <1>3, <3>3
                <5> QED BY <1>1, <2>6, <5>1
            <4> QED BY <2>2, <2>4, <2>6, <3>3, <4>1, <4>2
        <3>4. CASE i \in s.images /\ m <= s.id /\ s.id < n
            <4>1. ~(n <= s.id) /\ s.id \in 0 .. issued /\ s.id <= n
                BY <1>3, <3>4
            <4>2. \A u \in inFlight : i \in u.images => u.id <= s.id \/ n < u.id
                <5>1. ASSUME NEW u \in inFlight, i \in u.images PROVE u.id <= s.id \/ n < u.id
                    <6>1. CASE u = s
                        BY <1>3, <6>1
                    <6>2. CASE u # s
                        <7>1. u.id <= m \/ n < u.id
                            BY <1>1, <2>6, <5>1, <6>2
                        <7>2. u.id \in 1 .. issued
                            BY DEF IInv, Numbered
                        <7> QED BY <1>3, <3>4, <7>1, <7>2
                    <6> QED BY <6>1, <6>2
                <5> QED BY <5>1
            <4>3. f[s.id] = f[n]
                BY <2>2, <4>1, <4>2
            <4> QED BY <2>4, <3>4, <4>1, <4>3
        <3> QED BY <1>3, <3>1, <3>2, <3>3, <3>4
    <2>7. ASSUME NEW u \in inFlight', i \in u.images
          PROVE  Runs(u.steps, i, h[u.id - 1], h[u.id])
        <3>1. u \in inFlight /\ u # s /\ u.id \in 1 .. issued
            BY <1>1 DEF IInv, Numbered
        <3>2. Runs(u.steps, i, f[u.id - 1], f[u.id])
            BY <2>2, <2>7, <3>1
        <3>3. u.id - 1 \in 0 .. issued /\ u.id \in 0 .. issued
            BY <1>3, <3>1
        <3>4. CASE i \notin s.images
            BY <2>4, <3>2, <3>4
        <3>5. CASE i \in s.images
            <4>1. s.id < u.id
                BY <1>1, <2>7, <3>1, <3>5, ReadyFirst
            <4>2. ~(u.id <= s.id) /\ h[u.id] = f[u.id]
                BY <1>3, <2>4, <3>1, <3>3, <3>5, <4>1
            <4>3. h[u.id - 1] = f[u.id - 1]
                <5>1. CASE u.id - 1 = s.id
                    <6>1. u.id - 1 <= s.id
                        BY <1>3, <5>1
                    <6> QED BY <2>4, <3>3, <3>5, <5>1, <6>1
                <5>2. CASE u.id - 1 # s.id
                    <6>1. ~(u.id - 1 <= s.id)
                        BY <1>3, <3>1, <4>1, <5>2
                    <6> QED BY <2>4, <3>3, <3>5, <6>1
                <5> QED BY <5>1, <5>2
            <4> QED BY <3>2, <4>2, <4>3
        <3> QED BY <3>4, <3>5
    <2>8. issued' = issued /\ imageLayout' = imageLayout /\ steps' = steps
        BY <1>1
    <2>9. h \in [0 .. issued' -> Layout] /\ gpuLayout'[i] = [q \in First |-> h[0]]
        BY <2>4, <2>8
    <2>10. \A m, n \in 0 .. issued' :
               m <= n /\ (\A u \in inFlight' : i \in u.images => u.id <= m \/ n < u.id) => h[m] = h[n]
        BY <2>6, <2>8
    <2>11. \A g \in Everyone : RecordsTo(g, i)' => Runs(steps'[g], i, h[issued'], imageLayout'[i])
        BY <1>2, <2>2, <2>5, <2>8
    <2>12. /\ (\A g \in Everyone : ~RecordsTo(g, i)') => h[issued'] = imageLayout'[i]
        BY <1>2, <2>2, <2>5, <2>8
    <2> QED BY <2>7, <2>9, <2>10, <2>11, <2>12, LinkedNext
<1>5. DOMAIN gpuLayout' = GpuImage
    BY <1>1
<1> QED BY <1>4, <1>5 DEF Linked, GpuImage

\* New images of the swapchain: nothing in flight touches the old ones.
LEMMA LinkedRecreate ==
    ASSUME IInv, Pass, Recording, Linked, Fields, RecreateSwapChain
    PROVE  Linked'
<1>1. /\ pc[Display] = "idle" /\ inFlight = {} /\ inFlight' = {}
      /\ imageLayout' = [imageLayout EXCEPT ![Screen] = "UNDEFINED"]
      /\ gpuLayout' = [gpuLayout EXCEPT ![Screen] = [q \in First |-> "UNDEFINED"]]
      /\ UNCHANGED <<issued, steps, pc>>
    BY DEF RecreateSwapChain, commitVars
<1>2. \A g \in Everyone : \A i : RecordsTo(g, i)' <=> RecordsTo(g, i)
    BY <1>1, QuietListed DEF RecordsTo, IInv
<1>3. issued \in Nat /\ issued' = issued
    BY <1>1 DEF IInv, Numbered
<1>4. ASSUME NEW i \in GpuImage PROVE (\E g \in [0 .. issued -> Layout] : LinkedBy(g, i))'
    <2>1. CASE i = Screen
        <3>1. PICK h \in [0 .. issued -> Layout] : \A k \in 0 .. issued : h[k] = "UNDEFINED"
            <4>1. [k \in 0 .. issued |-> "UNDEFINED"] \in [0 .. issued -> Layout]
                BY DEF Layout
            <4>2. \A k \in 0 .. issued : [j \in 0 .. issued |-> "UNDEFINED"][k] = "UNDEFINED"
                OBVIOUS
            <4> QED BY <4>1, <4>2
        <3>2. h[0] = "UNDEFINED" /\ h[issued] = "UNDEFINED"
            BY <1>3, <3>1
        <3>3. gpuLayout'[i] = [q \in First |-> h[0]] /\ imageLayout'[i] = "UNDEFINED"
            BY <1>1, <2>1, <3>2, ImagesAre DEF Linked, Fields
        <3>4. \A g \in Everyone : ~RecordsTo(g, i)'
            <4>1. ASSUME NEW g \in Everyone, RecordsTo(g, i) PROVE FALSE
                <5>1. g = Display
                    BY <2>1, <4>1, ScreenListed DEF RecordsTo, IInv
                <5> QED BY <1>1, <4>1, <5>1 DEF RecordsTo
            <4> QED BY <1>2, <4>1
        <3>5. h \in [0 .. issued' -> Layout] /\ h[issued'] = imageLayout'[i]
            BY <1>3, <3>2, <3>3
        <3>6. \A m, n \in 0 .. issued' :
                  m <= n /\ (\A s \in inFlight' : i \in s.images => s.id <= m \/ n < s.id) => h[m] = h[n]
            BY <1>3, <3>1
        <3>7. \A s \in inFlight' : i \in s.images => Runs(s.steps, i, h[s.id - 1], h[s.id])
            BY <1>1
        <3>8. \A g \in Everyone : RecordsTo(g, i)' => Runs(steps'[g], i, h[issued'], imageLayout'[i])
            BY <3>4
        <3> QED BY <3>3, <3>5, <3>6, <3>7, <3>8, LinkedNext
    <2>2. CASE i # Screen
        <3>1. PICK f \in [0 .. issued -> Layout] : LinkedBy(f, i)
            BY DEF Linked
        <3>2. imageLayout'[i] = imageLayout[i] /\ gpuLayout'[i] = gpuLayout[i] /\ steps' = steps
            BY <1>1, <2>2, ImagesAre DEF Linked, Fields
        <3>3. /\ gpuLayout[i] = [q \in First |-> f[0]]
              /\ \A m, n \in 0 .. issued :
                     m <= n /\ (\A s \in inFlight : i \in s.images => s.id <= m \/ n < s.id) => f[m] = f[n]
              /\ \A g \in Everyone : RecordsTo(g, i) => Runs(steps[g], i, f[issued], imageLayout[i])
              /\ (\A g \in Everyone : ~RecordsTo(g, i)) => f[issued] = imageLayout[i]
            BY <3>1 DEF LinkedBy
        <3>4. f \in [0 .. issued' -> Layout] /\ gpuLayout'[i] = [q \in First |-> f[0]]
            BY <1>3, <3>2, <3>3
        <3>5. \A m, n \in 0 .. issued' :
                  m <= n /\ (\A s \in inFlight' : i \in s.images => s.id <= m \/ n < s.id) => f[m] = f[n]
            BY <1>1, <1>3, <3>3
        <3>6. \A g \in Everyone : RecordsTo(g, i)' => Runs(steps'[g], i, f[issued'], imageLayout'[i])
            BY <1>2, <1>3, <3>2, <3>3
        <3>7. (\A g \in Everyone : ~RecordsTo(g, i)') => f[issued'] = imageLayout'[i]
            BY <1>2, <1>3, <3>2, <3>3
        <3> QED BY <1>1, <2>2, <3>4, <3>5, <3>6, <3>7, LinkedNext
    <2> QED BY <2>1, <2>2
<1>5. DOMAIN gpuLayout' = GpuImage
    BY <1>1 DEF Linked
<1> QED BY <1>4, <1>5 DEF Linked, GpuImage

\* A step that leaves recording and execution alone.
LEMMA LinkedSame ==
    ASSUME Linked, UNCHANGED <<gpuLayout, imageLayout, issued, inFlight, steps>>,
           \A g \in Everyone : \A i : RecordsTo(g, i)' <=> RecordsTo(g, i)
    PROVE  Linked'
<1>1. ASSUME NEW i \in GpuImage PROVE (\E g \in [0 .. issued -> Layout] : LinkedBy(g, i))'
    <2>1. PICK f \in [0 .. issued -> Layout] : LinkedBy(f, i)
        BY DEF Linked
    <2>2. imageLayout' = imageLayout /\ issued' = issued /\ inFlight' = inFlight /\ steps' = steps
          /\ gpuLayout' = gpuLayout
        OBVIOUS
    <2>3. /\ gpuLayout[i] = [q \in First |-> f[0]]
          /\ \A m, n \in 0 .. issued :
                 m <= n /\ (\A s \in inFlight : i \in s.images => s.id <= m \/ n < s.id) => f[m] = f[n]
          /\ \A s \in inFlight : i \in s.images => Runs(s.steps, i, f[s.id - 1], f[s.id])
          /\ \A g \in Everyone : RecordsTo(g, i) => Runs(steps[g], i, f[issued], imageLayout[i])
          /\ (\A g \in Everyone : ~RecordsTo(g, i)) => f[issued] = imageLayout[i]
        BY <2>1 DEF LinkedBy
    <2>4. \A g \in Everyone : RecordsTo(g, i)' => Runs(steps[g], i, f[issued], imageLayout[i])
        BY <2>3
    <2>5. (\A g \in Everyone : ~RecordsTo(g, i)') => f[issued] = imageLayout[i]
        BY <2>3
    <2>6. /\ f \in [0 .. issued' -> Layout] /\ gpuLayout'[i] = [q \in First |-> f[0]]
          /\ \A m, n \in 0 .. issued' :
                 m <= n /\ (\A s \in inFlight' : i \in s.images => s.id <= m \/ n < s.id) => f[m] = f[n]
        BY <2>2, <2>3
    <2>7. /\ \A s \in inFlight' : i \in s.images => Runs(s.steps, i, f[s.id - 1], f[s.id])
        BY <2>2, <2>3
    <2>8. /\ \A g \in Everyone : RecordsTo(g, i)' => Runs(steps'[g], i, f[issued'], imageLayout'[i])
          /\ (\A g \in Everyone : ~RecordsTo(g, i)') => f[issued'] = imageLayout'[i]
        BY <2>2, <2>4, <2>5
    <2> QED BY <2>6, <2>7, <2>8, LinkedNext
<1> QED BY <1>1 DEF Linked, GpuImage

\* No step breaks Linked.
LEMMA LinkedStep ==
    ASSUME Single, IInv, Fields, Pass, Recording, Own, WrittenFirst, Linked, [Next]_vars, IInv'
    PROVE  Linked'
<1> USE ExecutorAssumption DEF cpuVars, pipeVars, commitVars, orderVars, Everyone
<1>0. Alone' /\ Commits
    BY OrderAloneNext DEF IInv
<1>1. ASSUME NEW i \in Target, SetTarget(i) PROVE Linked'
    <2>1. \A g \in Everyone : \A j : RecordsTo(g, j)' <=> RecordsTo(g, j)
        BY <1>0, <1>1, QuietListed DEF RecordsTo, SetTarget
    <2> QED BY <1>1, <2>1, LinkedSame DEF SetTarget
<1>2. ASSUME NEW e \in Everyone, NEW f \in Executor, Wait(e, f) PROVE Linked'
    <2>1. \A g \in Everyone : \A j : RecordsTo(g, j)' <=> RecordsTo(g, j)
        BY <1>0, <1>2, QuietListed DEF RecordsTo, Wait
    <2> QED BY <1>2, <2>1, LinkedSame DEF Wait
<1>3. ASSUME NEW e \in Executor, BeginCommit(e) PROVE Linked'
    <2>1. pc[e] # "record"
        BY <1>3 DEF BeginCommit, Start
    <2>2. \A g \in Everyone \ {e} : \A j : RecordsTo(g, j)' <=> RecordsTo(g, j)
        BY <1>0, <1>3, OthersListed DEF RecordsTo
    <2>3. UNCHANGED <<gpuLayout, imageLayout, issued, inFlight, steps>>
        BY <1>3 DEF BeginCommit, Start
    <2> QED BY <1>0, <2>1, <2>2, <2>3, LinkedStart
<1>4. ASSUME NEW i \in Image, BeginDisplay(i) PROVE Linked'
    <2>1. pc[Display] # "record"
        BY <1>4 DEF BeginDisplay, Start
    <2>2. \A g \in Everyone \ {Display} : \A j : RecordsTo(g, j)' <=> RecordsTo(g, j)
        BY <1>0, <1>4, OthersListed DEF RecordsTo
    <2>3. UNCHANGED <<gpuLayout, issued, inFlight, steps>>
        BY <1>4 DEF BeginDisplay, Start
    <2>4. \A j \in GpuImage : imageLayout'[j] = imageLayout[j]
        BY <1>4, ImageAssumption, Distinct DEF BeginDisplay, GpuImage, Fields, Slot
    <2> QED BY <1>0, <2>1, <2>2, <2>3, <2>4, LinkedStart
<1>5. ASSUME RecreateSwapChain PROVE Linked'
    BY <1>5, LinkedRecreate
<1>6. ASSUME NEW e \in Everyone, LockChain(e) PROVE Linked'
    <2>1. pc[e] # "record" /\ pc' = [pc EXCEPT ![e] = "record"]
        BY <1>6 DEF LockChain
    <2>2. \A g \in Everyone \ {e} : \A j : RecordsTo(g, j)' <=> RecordsTo(g, j)
        BY <1>0, <1>6, <2>1, QuietListed DEF RecordsTo, Commits
    <2>3. UNCHANGED <<gpuLayout, imageLayout, issued, inFlight, steps>>
        BY <1>6 DEF LockChain
    <2> QED BY <1>0, <2>1, <2>2, <2>3, LinkedStart
<1>7. ASSUME NEW e \in Everyone, Record(e) PROVE Linked'
    BY <1>7, LinkedRecord
<1>8. ASSUME NEW e \in Everyone, Submit(e) PROVE Linked'
    BY <1>8, LinkedSubmit
<1>9. ASSUME GpuStep PROVE Linked'
    BY <1>9, LinkedExecute DEF GpuStep
<1>10. ASSUME UNCHANGED vars PROVE Linked'
    <2>1. \A g \in Everyone : \A j : RecordsTo(g, j)' <=> RecordsTo(g, j)
        BY <1>0, <1>10, QuietListed DEF RecordsTo, vars
    <2> QED BY <1>10, <2>1, LinkedSame DEF vars
<1> QED BY <1>1, <1>2, <1>3, <1>4, <1>5, <1>6, <1>7, <1>8, <1>9, <1>10 DEF Next

\* The inductive invariant of LayoutsMatch and BookkeepingExact.
LInv == IInv /\ Fields /\ Pass /\ Recording /\ Own /\ WrittenFirst /\ Linked

\* It is inductive.
LEMMA LInvStep == Single /\ LInv /\ [Next]_vars => LInv'
<1> SUFFICES ASSUME Single, LInv, [Next]_vars PROVE LInv'
    OBVIOUS
<1>1. IInv'
    BY CommitsStep, NumberedStep, OrderStep DEF LInv, IInv
<1>2. Fields' /\ Pass' /\ Recording' /\ Own' /\ WrittenFirst'
    BY FieldsStep, PassStep, RecordingStep, OwnStep, WrittenStep DEF LInv, IInv
<1>3. Linked'
    BY <1>1, LinkedStep DEF LInv
<1> QED BY <1>1, <1>2, <1>3 DEF LInv

\* It holds at the start.
LEMMA InitLInv == Single /\ Init => LInv
<1> SUFFICES ASSUME Single, Init PROVE LInv
    OBVIOUS
<1> USE ExecutorAssumption, ImageAssumption DEF Everyone
<1>1. /\ imageLayout = [s \in Slot |-> "UNDEFINED"]
      /\ gpuLayout = [i \in GpuImage |-> [q \in PartsOf(i) |-> "UNDEFINED"]]
      /\ displayed = None /\ framebuffer = None /\ renderTarget \in Target /\ depthImage \in {None, Depth}
      /\ pc = [e \in Everyone |-> "idle"] /\ commandList = [e \in Everyone |-> << >>]
      /\ recorded = [e \in Everyone |-> 0] /\ steps = [e \in Everyone |-> << >>]
      /\ inFlight = {} /\ issued = 0 /\ retargets = 0
    BY DEF Init
<1>2. Fields
    BY <1>1 DEF Fields, Layout, Slot
<1>3. Pass
    BY <1>1 DEF Pass, Slot
<1>4. Recording
    <2>1. << >> \in Seq(SUBSET Move) /\ Len(<< >>) = 0 /\ DOMAIN << >> = {}
        OBVIOUS
    <2>2. \A X : Made(<< >>, X)
        BY <2>1 DEF Made
    <2> QED BY <1>1, <2>1, <2>2 DEF Recording
<1>5. Own
    BY <1>1 DEF Own
<1>6. WrittenFirst
    BY <1>1 DEF WrittenFirst
<1>7. Linked
    <2>1. ASSUME NEW i \in GpuImage PROVE \E f \in [0 .. issued -> Layout] : LinkedBy(f, i)
        <3>1. PICK f \in [0 .. issued -> Layout] : \A k \in 0 .. issued : f[k] = "UNDEFINED"
            <4>1. [k \in 0 .. issued |-> "UNDEFINED"] \in [0 .. issued -> Layout]
                BY DEF Layout
            <4>2. \A k \in 0 .. issued : [j \in 0 .. issued |-> "UNDEFINED"][k] = "UNDEFINED"
                OBVIOUS
            <4> QED BY <4>1, <4>2
        <3>2. f[0] = "UNDEFINED" /\ f[issued] = "UNDEFINED"
            BY <1>1, <3>1
        <3>3. gpuLayout[i] = [q \in First |-> f[0]] /\ imageLayout[i] = "UNDEFINED"
            BY <1>1, <3>2, OnePart, ImagesAre
        <3>4. \A e \in Everyone : ~RecordsTo(e, i)
            BY <1>1 DEF RecordsTo
        <3>5. LinkedBy(f, i)
            BY <1>1, <3>1, <3>2, <3>3, <3>4 DEF LinkedBy
        <3> QED BY <3>5
    <2> QED BY <1>1, <2>1 DEF Linked
<1> QED BY <1>2, <1>3, <1>4, <1>5, <1>6, <1>7, InitIInv DEF LInv

\* In every reachable state each image has a sequence of layouts to come that every submission
\* in flight, and every command buffer under way, follows from the one before it to its own.
THEOREM LayoutInvariance == Single => (Spec => []LInv)
<1> SUFFICES ASSUME Single PROVE Spec => []LInv
    OBVIOUS
<1>1. Init => LInv
    BY InitLInv
<1>2. LInv /\ [Next]_vars => LInv'
    BY LInvStep
<1> QED BY <1>1, <1>2, PTL DEF Spec

\* With nothing of the image in flight, it is in what its next recorder starts from.
LEMMA AtRest ==
    ASSUME IInv, NEW i \in GpuImage, NEW f \in [0 .. issued -> Layout], LinkedBy(f, i),
           \A s \in inFlight : i \notin s.images
    PROVE  gpuLayout[i] = [q \in First |-> f[issued]]
<1>1. issued \in Nat
    BY DEF IInv, Numbered
<1>2. 0 \in 0 .. issued /\ issued \in 0 .. issued /\ 0 <= issued
    BY <1>1
<1>3. f[0] = f[issued]
    BY <1>2 DEF LinkedBy
<1> QED BY <1>3 DEF LinkedBy

\* A submission that can start finds the layouts its steps name.
LEMMA LInvMatch == Single /\ LInv => LayoutsMatch
<1> SUFFICES ASSUME Single, LInv,
                    NEW s \in Ready, NEW n \in DOMAIN s.steps, NEW t \in s.steps[n], NEW q \in t.parts
             PROVE  LayoutAfter(s, n - 1, t.image, q) = t.old
    BY DEF LayoutsMatch
<1>1. s \in inFlight
    BY DEF Ready
<1>2. Made(s.steps, s.images) /\ s.steps \in Seq(SUBSET Move)
    BY <1>1 DEF LInv, Recording, Made
<1>3. t \in Move /\ t.image \in s.images /\ t.image \in GpuImage /\ q \in First
    <2>1. s.steps[n] \subseteq Move
        BY <1>2
    <2>2. t \in Move
        BY <2>1
    <2> QED BY <1>2, <2>2 DEF Made, Moves, Move
<1>4. PICK f \in [0 .. issued -> Layout] : LinkedBy(f, t.image)
    BY <1>3 DEF LInv, Linked
<1>5. /\ gpuLayout[t.image] = [p \in First |-> f[s.id - 1]]
      /\ Runs(s.steps, t.image, f[s.id - 1], f[s.id])
    BY <1>3, <1>4, ReadyFinds DEF LInv
<1>6. gpuLayout[t.image][q] = f[s.id - 1]
    BY <1>3, <1>5
<1>7. Result(s.steps, n - 1, t.image, gpuLayout[t.image][q], t.old)
    BY <1>5, <1>6 DEF Runs
<1>8. n - 1 \in 0 .. Len(s.steps)
    BY <1>2
<1>9. Calm(s, t.image)
    BY <1>2 DEF Calm, Made, Moves
<1>10. PICK i, l, m : i = t.image /\ l = t.old /\ m = n - 1
    OBVIOUS
<1>11. Calm(s, i) /\ m \in 0 .. Len(s.steps) /\ Result(s.steps, m, i, gpuLayout[i][q], l) /\ q \in First
    BY <1>3, <1>7, <1>8, <1>9, <1>10
<1>12. LayoutAfter(s, m, i, q) = l
    BY <1>11, LayoutAfterIs, Zenon
<1> QED BY <1>10, <1>12

\* With nothing to come, the layout of an image is its field.
LEMMA LInvBookkeeping == Single /\ LInv => BookkeepingExact
<1> SUFFICES ASSUME Single, LInv, inFlight = {}, \A e \in Everyone : pc[e] = "idle",
                    NEW s \in Slot, Handle(s) # None, NEW q \in PartsOf(Handle(s))
             PROVE  gpuLayout[Handle(s)][q] = imageLayout[s]
    BY DEF BookkeepingExact
<1>1. q \in First
    BY OnePart
<1>2. ASSUME NEW i \in GpuImage PROVE gpuLayout[i] = [p \in First |-> imageLayout[i]]
    <2>1. PICK f \in [0 .. issued -> Layout] : LinkedBy(f, i)
        BY DEF LInv, Linked
    <2>2. f[issued] = imageLayout[i]
        BY <2>1 DEF LinkedBy, RecordsTo
    <2>3. \A u \in inFlight : i \notin u.images
        OBVIOUS
    <2>4. gpuLayout[i] = [p \in First |-> f[issued]]
        BY <2>1, <2>3, AtRest DEF LInv
    <2> QED BY <2>2, <2>4
<1>3. CASE s = Copy
    <2>1. Handle(s) = displayed /\ displayed \in GpuImage /\ imageLayout[displayed] = imageLayout[s]
        BY <1>3, ImagesAre DEF Handle, LInv, Fields
    <2> QED BY <1>1, <1>2, <2>1
<1>4. CASE s # Copy
    <2>1. Handle(s) = s /\ s \in GpuImage
        BY <1>4 DEF Handle, Slot, GpuImage
    <2>2. gpuLayout[s] = [p \in First |-> imageLayout[s]]
        BY <1>2, <2>1
    <2> QED BY <1>1, <2>1, <2>2
<1> QED BY <1>3, <1>4

\* The layouts recorded on the CPU, while other executors and the displayer record and submit
\* theirs, are the ones the GPU meets when it comes to each barrier and each command: for any
\* images, executors, commands and frames, as long as images have one subresource and render
\* targets are set before the first draw.
THEOREM BarriersFindTheirLayouts == Single => (Spec => []LayoutsMatch)
<1> SUFFICES ASSUME Single PROVE Spec => []LayoutsMatch
    OBVIOUS
<1>1. LInv => LayoutsMatch
    BY LInvMatch
<1>2. Spec => []LInv
    BY LayoutInvariance
<1> QED BY <1>1, <1>2, PTL

\* When nothing is under way, the field of every image says what it is in, the displayer's copy
\* of the field included, although displayFrame keeps it beside the one commands write.
THEOREM FieldsTellTheLayouts == Single => (Spec => []BookkeepingExact)
<1> SUFFICES ASSUME Single PROVE Spec => []BookkeepingExact
    OBVIOUS
<1>1. LInv => BookkeepingExact
    BY LInvBookkeeping
<1>2. Spec => []LInv
    BY LayoutInvariance
<1> QED BY <1>1, <1>2, PTL

-----------------------------------------------------------------------------
(***************************************************************************)
(* The image of the swapchain                                              *)
(***************************************************************************)

\* Sequences of whatever.
IsSequence(sq) == \E S : sq \in Seq(S)

\* No transition names the image of the swapchain.
Elsewhere(sq) == IsSequence(sq) /\ \A n \in DOMAIN sq : \A t \in sq[n] : t.image # Screen

\* The steps of a frame: the last one hands the image over to the presentation.
Presented(sq) ==
    IsSequence(sq) /\ sq # << >> /\ sq[Len(sq)] = {Go(Screen, "GENERAL", "PRESENT")}

\* The targets are images of the application.
Targets == renderTarget \in Target /\ framebuffer \in Target \cup {None}

\* What the image of the swapchain is in between frames.
Undisturbed == {"PRESENT", "UNDEFINED"}

\* Only the displayer names the image of the swapchain, its frames are whole, and without
\* one in flight the image is undisturbed.
Frames ==
    /\ DOMAIN steps = Everyone /\ recorded \in [Everyone -> Nat] /\ Screen \in DOMAIN gpuLayout
    /\ \A e \in Executor : Elsewhere(steps[e])
    /\ \/ recorded[Display] = 0 /\ steps[Display] = << >>
       \/ recorded[Display] = 1 /\ Presented(steps[Display])
    /\ pc[Display] # "idle" => commandList[Display] = <<BlitCommand>>
    /\ \A s \in inFlight : \/ s.executor = Display /\ Presented(s.steps)
                           \/ s.executor \in Executor /\ Elsewhere(s.steps)
    /\ (\A s \in inFlight : s.executor # Display) => gpuLayout[Screen][<<0, 0>>] \in Undisturbed

\* Sequences one after the other.
LEMMA SequencesOn ==
    ASSUME NEW sq, NEW st, IsSequence(sq), IsSequence(st)
    PROVE  IsSequence(sq \o st)
<1>1. PICK S : sq \in Seq(S)
    BY DEF IsSequence
<1>2. PICK T : st \in Seq(T)
    BY DEF IsSequence
<1>3. sq \in Seq(S \cup T) /\ st \in Seq(S \cup T)
    BY <1>1, <1>2
<1>4. sq \o st \in Seq(S \cup T)
    BY <1>3
<1> QED BY <1>4 DEF IsSequence

\* The same, when neither names the image of the swapchain.
LEMMA ElsewhereOn ==
    ASSUME NEW sq, NEW st, Elsewhere(sq), Elsewhere(st)
    PROVE  Elsewhere(sq \o st)
<1>1. PICK S : sq \in Seq(S)
    BY DEF Elsewhere, IsSequence
<1>2. PICK T : st \in Seq(T)
    BY DEF Elsewhere, IsSequence
<1>3. sq \in Seq(S \cup T) /\ st \in Seq(S \cup T)
    BY <1>1, <1>2
<1>4. ASSUME NEW n \in DOMAIN (sq \o st) PROVE \/ n \in DOMAIN sq /\ (sq \o st)[n] = sq[n]
                                               \/ n - Len(sq) \in DOMAIN st /\ (sq \o st)[n] = st[n - Len(sq)]
    BY <1>3
<1>5. IsSequence(sq \o st)
    BY SequencesOn DEF Elsewhere
<1> QED BY <1>4, <1>5 DEF Elsewhere

\* One step that does not name it.
LEMMA ElsewhereOne ==
    ASSUME NEW st, \A t \in st : t.image # Screen
    PROVE  Elsewhere(<<st>>)
<1> DEFINE sq == <<st>>
<1>1. sq \in Seq({st}) /\ DOMAIN sq = {1} /\ sq[1] = st
    OBVIOUS
<1> HIDE DEF sq
<1>2. Elsewhere(sq)
    BY <1>1 DEF Elsewhere, IsSequence
<1> QED BY <1>2 DEF sq

\* Three steps that do not name it.
LEMMA ElsewhereThree ==
    ASSUME NEW s1, NEW s2, NEW s3, \A t \in s1 \cup s2 \cup s3 : t.image # Screen
    PROVE  Elsewhere(<<s1, s2, s3>>)
<1> DEFINE sq == <<s1, s2, s3>>
<1>1. sq \in Seq({s1, s2, s3}) /\ DOMAIN sq = {1, 2, 3} /\ sq[1] = s1 /\ sq[2] = s2 /\ sq[3] = s3
    OBVIOUS
<1> HIDE DEF sq
<1>2. Elsewhere(sq)
    BY <1>1 DEF Elsewhere, IsSequence
<1> QED BY <1>2 DEF sq

\* The application cannot name the image of the swapchain.
LEMMA CommandElsewhere ==
    ASSUME Targets, NEW c \in AppCommand
    PROVE  Elsewhere(EffectOf(c).steps)
<1>1. \A i \in Image : Handle(i) = i /\ i # Screen
    BY ImageAssumption DEF Handle
<1>2. Handle(Depth) = Depth /\ Depth # Screen
    BY Distinct DEF Handle
<1>3. CASE c.kind = "copyImage"
    <2>1. c.src \in Image /\ c.dst \in Image /\ EffectOf(c) = CopyImage(c)
        BY <1>3, CommandsAre DEF EffectOf
    <2> QED BY <1>1, <2>1, ElsewhereThree DEF CopyImage, Effect, Barrier, Access, Restore, Transition
<1>4. CASE c.kind = "copyBufferToImage"
    <2>1. c.dst \in Image /\ EffectOf(c) = CopyBufferToImage(c)
        BY <1>4, CommandsAre DEF EffectOf
    <2> QED BY <1>1, <2>1, ElsewhereThree DEF CopyBufferToImage, Effect, Barrier, Access, Restore, Transition
<1>5. CASE c.kind = "copyImageToBuffer"
    <2>1. c.src \in Image /\ EffectOf(c) = CopyImageToBuffer(c)
        BY <1>5, CommandsAre DEF EffectOf
    <2> QED BY <1>1, <2>1, ElsewhereThree DEF CopyImageToBuffer, Effect, Barrier, Access, Restore, Transition
<1>6. CASE c.kind = "shade"
    <2>1. c.src \in Image /\ EffectOf(c) = Shade(c)
        BY <1>6, CommandsAre, ImagesAre DEF EffectOf
    <2> QED BY <1>1, <2>1, ElsewhereOne DEF Shade, Effect, Access, Transition
<1>7. CASE c.kind = "draw"
    <2>1. EffectOf(c) = Draw
        BY <1>7 DEF EffectOf
    <2>2. renderTarget \in Image /\ FramebufferOf \in Image
        BY ImagesAre DEF Targets, FramebufferOf
    <2> DEFINE s1 == {Barrier(renderTarget, First, "COLOR")} \cup
                         (IF depthImage = None THEN {} ELSE {Barrier(Depth, First, "DEPTH")})
    <2> DEFINE s3 == {Transition(FramebufferOf, First, "COLOR", PassLayout), Access(Depth, First, "DEPTH")}
    <2>3. Elsewhere(<<s1>>)
        <3>1. \A t \in s1 : t.image # Screen
            BY <1>1, <1>2, <2>2 DEF Barrier, Transition
        <3> QED BY <3>1, ElsewhereOne
    <2>4. Elsewhere(<<s3>>)
        <3>1. \A t \in s3 : t.image # Screen
            BY <1>1, <1>2, <2>2 DEF Access, Transition
        <3> QED BY <3>1, ElsewhereOne
    <2>5. Elsewhere(DepthSteps)
        <3>1. Elsewhere(<< >>)
            <4>1. << >> \in Seq({}) /\ DOMAIN << >> = {}
                OBVIOUS
            <4> QED BY <4>1 DEF Elsewhere, IsSequence
        <3>2. ASSUME NEW x, NEW y PROVE Elsewhere(<<{Transition(Depth, First, x, y)}>>)
            BY <1>2, ElsewhereOne DEF Transition
        <3> QED BY <3>1, <3>2 DEF DepthSteps
    <2>6. EffectOf(c).steps = <<s1>> \o DepthSteps \o <<s3>>
        BY <2>1 DEF Draw, Effect
    <2> HIDE DEF s1, s3
    <2>7. Elsewhere(<<s1>> \o DepthSteps)
        BY <2>3, <2>5, ElsewhereOn
    <2> QED BY <2>4, <2>6, <2>7, ElsewhereOn
<1> QED BY <1>3, <1>4, <1>5, <1>6, <1>7, CommandsAre

\* A frame ends with the image of the swapchain handed over.
LEMMA BlitPresents == Presented(EffectOf(BlitCommand).steps)
<1>1. EffectOf(BlitCommand) = BlitToScreen
    BY BlitIs DEF EffectOf
<1>2. Transition(Screen, First, "GENERAL", ScreenLayout) = Go(Screen, "GENERAL", "PRESENT")
    BY Distinct DEF Transition, Handle, ScreenLayout, Go
<1>3. PICK s1, s2, s3 : BlitToScreen.steps = <<s1, s2, s3, {Go(Screen, "GENERAL", "PRESENT")}>>
    BY <1>2 DEF BlitToScreen, Effect
<1> DEFINE s4 == {Go(Screen, "GENERAL", "PRESENT")}
<1> DEFINE sq == <<s1, s2, s3, s4>>
<1> HIDE DEF s4
<1>4. sq \in Seq({s1, s2, s3, s4}) /\ Len(sq) = 4 /\ sq[4] = s4 /\ sq # << >>
    OBVIOUS
<1> HIDE DEF sq
<1>5. Presented(sq)
    BY <1>4 DEF Presented, IsSequence, s4
<1> QED BY <1>1, <1>3, <1>5 DEF sq, s4

\* A commit of the application leaves it as it is.
LEMMA AfterElsewhere ==
    ASSUME NEW s, Elsewhere(s.steps), NEW q
    PROVE  LayoutAfter(s, Len(s.steps), Screen, q) = gpuLayout[Screen][q]
<1>1. DOMAIN s.steps = 1 .. Len(s.steps)
    BY DEF Elsewhere, IsSequence
<1>2. {m \in 1 .. Len(s.steps) : \E t \in s.steps[m] : Names(t, Screen, q)} = {}
    BY <1>1 DEF Elsewhere, Names
<1> QED BY <1>2 DEF LayoutAfter

\* A frame leaves it presentable.
LEMMA AfterPresented ==
    ASSUME NEW s, Presented(s.steps)
    PROVE  LayoutAfter(s, Len(s.steps), Screen, <<0, 0>>) = "PRESENT"
<1> DEFINE q == <<0, 0>>
<1> DEFINE t == Go(Screen, "GENERAL", "PRESENT")
<1> DEFINE n == Len(s.steps)
<1> DEFINE hits == {m \in 1 .. n : \E u \in s.steps[m] : Names(u, Screen, q)}
<1>1. n \in Nat /\ n >= 1 /\ s.steps[n] = {t}
    BY DEF Presented, IsSequence
<1>2. t.image = Screen /\ t.parts = First /\ t.new = "PRESENT"
    BY DEF Go
<1>3. Names(t, Screen, q)
    BY <1>2 DEF Names, First
<1> HIDE DEF t
<1>4. n \in hits /\ \A k \in hits : k <= n
    BY <1>1, <1>3
<1>5. (CHOOSE m \in hits : \A k \in hits : k <= m) = n
    BY <1>1, <1>4
<1>6. (CHOOSE u \in {t} : Names(u, Screen, q)) = t
    BY <1>3
<1>7. LayoutAfter(s, n, Screen, q) = (CHOOSE u \in s.steps[n] : Names(u, Screen, q)).new
    BY <1>4, <1>5 DEF LayoutAfter
<1> QED BY <1>1, <1>2, <1>6, <1>7

\* No step breaks Targets.
LEMMA TargetsStep == Targets /\ [Next]_vars => Targets'
<1> SUFFICES ASSUME Targets, [Next]_vars PROVE Targets'
    OBVIOUS
<1> USE DEF cpuVars, pipeVars, commitVars, orderVars
<1>same. UNCHANGED <<renderTarget, framebuffer>> => Targets'
    BY DEF Targets
<1>1. ASSUME NEW i \in Target, SetTarget(i) PROVE Targets'
    BY <1>1 DEF SetTarget, Targets
<1>2. ASSUME NEW e \in Everyone, NEW f \in Executor, Wait(e, f) PROVE Targets'
    BY <1>2, <1>same DEF Wait
<1>3. ASSUME NEW e \in Executor, BeginCommit(e) PROVE Targets'
    BY <1>3, <1>same DEF BeginCommit, Start
<1>4. ASSUME NEW i \in Image, BeginDisplay(i) PROVE Targets'
    BY <1>4, <1>same DEF BeginDisplay, Start
<1>5. ASSUME RecreateSwapChain PROVE Targets'
    BY <1>5, <1>same DEF RecreateSwapChain
<1>6. ASSUME NEW e \in Everyone, LockChain(e) PROVE Targets'
    BY <1>6, <1>same, LockKeeps
<1>7. ASSUME NEW e \in Everyone, Record(e) PROVE Targets'
    <2>1. renderTarget' = renderTarget /\ framebuffer' \in {framebuffer, FramebufferOf}
        BY <1>7, RecordKeeps
    <2> QED BY <2>1 DEF Targets, FramebufferOf
<1>8. ASSUME NEW e \in Everyone, Submit(e) PROVE Targets'
    BY <1>8, <1>same DEF Submit
<1>9. ASSUME GpuStep PROVE Targets'
    BY <1>9, <1>same DEF GpuStep, Execute
<1>10. ASSUME UNCHANGED vars PROVE Targets'
    BY <1>10, <1>same DEF vars
<1> QED BY <1>1, <1>2, <1>3, <1>4, <1>5, <1>6, <1>7, <1>8, <1>9, <1>10 DEF Next

\* No step breaks Frames.
LEMMA FramesStep ==
    ASSUME Commits, Targets, Frames, [Next]_vars
    PROVE  Frames'
<1> USE ExecutorAssumption DEF cpuVars, pipeVars, commitVars, orderVars, Everyone
<1>next. ASSUME DOMAIN steps' = Everyone, recorded' \in [Everyone -> Nat], Screen \in DOMAIN gpuLayout',
                \A e \in Executor : Elsewhere(steps'[e]),
                \/ recorded'[Display] = 0 /\ steps'[Display] = << >>
                \/ recorded'[Display] = 1 /\ Presented(steps'[Display]),
                pc'[Display] # "idle" => commandList'[Display] = <<BlitCommand>>,
                \A s \in inFlight' : \/ s.executor = Display /\ Presented(s.steps)
                                     \/ s.executor \in Executor /\ Elsewhere(s.steps),
                (\A s \in inFlight' : s.executor # Display) => gpuLayout'[Screen][<<0, 0>>] \in Undisturbed
         PROVE  Frames'
    BY <1>next DEF Frames, Elsewhere, Presented, IsSequence, Go, Undisturbed
<1>same. ASSUME UNCHANGED <<steps, recorded, gpuLayout, inFlight>>,
                pc'[Display] # "idle" => commandList'[Display] = <<BlitCommand>>
         PROVE  Frames'
    BY <1>same, <1>next DEF Frames
<1>1. ASSUME NEW i \in Target, SetTarget(i) PROVE Frames'
    BY <1>1, <1>same DEF SetTarget, Frames
<1>2. ASSUME NEW e \in Everyone, NEW f \in Executor, Wait(e, f) PROVE Frames'
    BY <1>2, <1>same DEF Wait, Frames
<1>3. ASSUME NEW e \in Executor, BeginCommit(e) PROVE Frames'
    <2>1. pc'[Display] = pc[Display] /\ commandList'[Display] = commandList[Display]
        BY <1>3, OthersListed
    <2>2. UNCHANGED <<steps, recorded, gpuLayout, inFlight>>
        BY <1>3 DEF BeginCommit, Start
    <2> QED BY <1>same, <2>1, <2>2 DEF Frames
<1>4. ASSUME NEW i \in Image, BeginDisplay(i) PROVE Frames'
    <2>1. UNCHANGED <<steps, recorded, gpuLayout, inFlight>>
        BY <1>4 DEF BeginDisplay, Start
    <2>2. commandList'[Display] = <<BlitCommand>>
        BY <1>4 DEF BeginDisplay, Start, Commits
    <2> QED BY <1>same, <2>1, <2>2
<1>5. ASSUME RecreateSwapChain PROVE Frames'
    <2>1. /\ gpuLayout' = [gpuLayout EXCEPT ![Screen] = [q \in First |-> "UNDEFINED"]]
          /\ UNCHANGED <<steps, recorded, pc, commandList, inFlight>>
        BY <1>5 DEF RecreateSwapChain
    <2>2. gpuLayout'[Screen][<<0, 0>>] = "UNDEFINED" /\ Screen \in DOMAIN gpuLayout'
        BY <2>1 DEF Frames, First
    <2>3. (\A s \in inFlight' : s.executor # Display) => gpuLayout'[Screen][<<0, 0>>] \in Undisturbed
        BY <2>2 DEF Undisturbed
    <2> QED BY <2>1, <2>2, <2>3, <1>next DEF Frames
<1>6. ASSUME NEW e \in Everyone, LockChain(e) PROVE Frames'
    <2>1. UNCHANGED <<steps, recorded, gpuLayout, inFlight>>
        BY <1>6 DEF LockChain
    <2>2. pc[e] = "chain" /\ pc' = [pc EXCEPT ![e] = "record"] /\ commandList' = commandList
        BY <1>6 DEF LockChain
    <2>3. pc'[Display] # "idle" => pc[Display] # "idle"
        BY <2>2 DEF Commits
    <2> QED BY <1>same, <2>1, <2>2, <2>3 DEF Frames
<1>7. ASSUME NEW e \in Everyone, Record(e) PROVE Frames'
    <2>1. PICK st : st = EffectOf(Turn(e)).steps
        OBVIOUS
    <2>2. /\ pc[e] = "record" /\ recorded[e] < Len(commandList[e])
          /\ steps' = [steps EXCEPT ![e] = @ \o st]
          /\ recorded' = [recorded EXCEPT ![e] = @ + 1]
          /\ UNCHANGED <<pc, commandList, inFlight, gpuLayout>>
        BY <1>7, <2>1 DEF Record, Turn
    <2>5. DOMAIN steps' = Everyone /\ recorded' \in [Everyone -> Nat]
        BY <2>2 DEF Frames
    <2>3. CASE e = Display
        <3>1. commandList[e] = <<BlitCommand>> /\ Len(commandList[e]) = 1
            BY <2>2, <2>3 DEF Frames
        <3>2. recorded[e] = 0 /\ steps[e] = << >>
            BY <2>2, <2>3, <3>1 DEF Frames
        <3>3. Turn(e) = BlitCommand
            BY <3>1, <3>2 DEF Turn
        <3>4. Presented(st)
            BY <2>1, <3>3, BlitPresents
        <3>5. << >> \o st = st
            BY <3>4 DEF Presented, IsSequence
        <3>6. recorded'[Display] = 1 /\ steps'[Display] = st
            BY <2>2, <2>3, <3>2, <3>5 DEF Frames
        <3>7. \A f \in Executor : steps'[f] = steps[f]
            BY <2>2, <2>3 DEF Frames
        <3>8. \A f \in Executor : Elsewhere(steps'[f])
            BY <3>7 DEF Frames
        <3> QED BY <2>2, <2>5, <3>4, <3>6, <3>8, <1>next DEF Frames
    <2>4. CASE e \in Executor
        <3>1. Turn(e) \in AppCommand
            <4>1. recorded[e] + 1 \in DOMAIN commandList[e]
                <5>1. commandList[e] \in Seq(AppCommand \cup {BlitCommand}) /\ recorded[e] \in Nat
                    BY ListsAre DEF Frames
                <5> QED BY <2>2, <5>1
            <4> QED BY <2>4, <4>1, ListsAre DEF Turn
        <3>2. Elsewhere(st)
            BY <2>1, <3>1, CommandElsewhere
        <3>3. steps'[e] = steps[e] \o st /\ \A f \in Everyone : f # e => steps'[f] = steps[f] /\ recorded'[f] = recorded[f]
            BY <2>2 DEF Frames
        <3>4. \A f \in Executor : Elsewhere(steps'[f])
            <4>1. Elsewhere(steps[e] \o st)
                BY <2>4, <3>2, ElsewhereOn DEF Frames
            <4> QED BY <3>3, <4>1 DEF Frames
        <3>5. \/ recorded'[Display] = 0 /\ steps'[Display] = << >>
              \/ recorded'[Display] = 1 /\ Presented(steps'[Display])
            BY <2>4, <3>3 DEF Frames
        <3> QED BY <2>2, <2>5, <3>4, <3>5, <1>next DEF Frames
    <2> QED BY <2>3, <2>4
<1>8. ASSUME NEW e \in Everyone, Submit(e) PROVE Frames'
    <2>0. PICK new : new = Submission(e)
        OBVIOUS
    <2>1. /\ pc[e] = "record" /\ recorded[e] = Len(commandList[e])
          /\ inFlight' = inFlight \cup {new} /\ gpuLayout' = gpuLayout
          /\ pc' = [pc EXCEPT ![e] = "idle"] /\ commandList' = [commandList EXCEPT ![e] = << >>]
          /\ recorded' = [recorded EXCEPT ![e] = 0] /\ steps' = [steps EXCEPT ![e] = << >>]
        BY <1>8, <2>0 DEF Submit
    <2>2. new.executor = e /\ new.steps = steps[e]
        BY <2>0 DEF Submission
    <2>3. \/ new.executor = Display /\ Presented(new.steps)
          \/ new.executor \in Executor /\ Elsewhere(new.steps)
        <3>1. e = Display => recorded[e] = 1
            <4>1. e = Display => commandList[e] = <<BlitCommand>>
                BY <2>1 DEF Frames
            <4>2. Len(<<BlitCommand>>) = 1
                OBVIOUS
            <4> QED BY <2>1, <4>1, <4>2
        <3> QED BY <2>2, <3>1 DEF Frames
    <2>4. Elsewhere(<< >>)
        <3>1. << >> \in Seq({}) /\ DOMAIN << >> = {}
            OBVIOUS
        <3> QED BY <3>1 DEF Elsewhere, IsSequence
    <2>5. /\ steps'[e] = << >> /\ recorded'[e] = 0 /\ pc'[e] = "idle"
          /\ \A f \in Everyone : f # e => /\ steps'[f] = steps[f] /\ recorded'[f] = recorded[f]
                                         /\ pc'[f] = pc[f] /\ commandList'[f] = commandList[f]
        BY <2>1 DEF Frames, Commits
    <2>6. DOMAIN steps' = Everyone /\ recorded' \in [Everyone -> Nat] /\ Screen \in DOMAIN gpuLayout'
        BY <2>1 DEF Frames
    <2>7. \A f \in Executor : Elsewhere(steps'[f])
        BY <2>4, <2>5 DEF Frames
    <2>8. \/ recorded'[Display] = 0 /\ steps'[Display] = << >>
          \/ recorded'[Display] = 1 /\ Presented(steps'[Display])
        BY <2>5 DEF Frames
    <2>9. pc'[Display] # "idle" => commandList'[Display] = <<BlitCommand>>
        BY <2>5 DEF Frames
    <2>10. \A s \in inFlight' : \/ s.executor = Display /\ Presented(s.steps)
                                \/ s.executor \in Executor /\ Elsewhere(s.steps)
        BY <2>1, <2>3 DEF Frames
    <2>11. (\A s \in inFlight' : s.executor # Display) => gpuLayout'[Screen][<<0, 0>>] \in Undisturbed
        BY <2>1 DEF Frames
    <2> QED BY <2>6, <2>7, <2>8, <2>9, <2>10, <2>11, <1>next
<1>9. ASSUME NEW s \in inFlight, Execute(s) PROVE Frames'
    <2>1. /\ inFlight' = inFlight \ {s} /\ UNCHANGED <<steps, recorded, pc, commandList>>
          /\ gpuLayout' = [i \in GpuImage |-> [q \in PartsOf(i) |-> LayoutAfter(s, Len(s.steps), i, q)]]
        BY <1>9 DEF Execute
    <2>2. Screen \in GpuImage /\ PartsOf(Screen) = First /\ <<0, 0>> \in First
        BY ImageAssumption, ImagesAre DEF PartsOf, First
    <2>3. Screen \in DOMAIN gpuLayout' /\ gpuLayout'[Screen][<<0, 0>>] = LayoutAfter(s, Len(s.steps), Screen, <<0, 0>>)
        BY <2>1, <2>2
    <2>4. (\A u \in inFlight' : u.executor # Display) => gpuLayout'[Screen][<<0, 0>>] \in Undisturbed
        <3>1. CASE s.executor = Display /\ Presented(s.steps)
            BY <2>3, <3>1, AfterPresented DEF Undisturbed
        <3>2. CASE s.executor \in Executor /\ Elsewhere(s.steps)
            <4>1. gpuLayout'[Screen][<<0, 0>>] = gpuLayout[Screen][<<0, 0>>]
                BY <2>3, <3>2, AfterElsewhere
            <4> QED BY <2>1, <3>2, <4>1 DEF Frames
        <3> QED BY <3>1, <3>2 DEF Frames
    <2> QED BY <2>1, <2>3, <2>4, <1>next DEF Frames
<1>10. ASSUME UNCHANGED vars PROVE Frames'
    BY <1>10, <1>same DEF vars, Frames
<1> QED BY <1>1, <1>2, <1>3, <1>4, <1>5, <1>6, <1>7, <1>8, <1>9, <1>10 DEF Next, GpuStep

\* The inductive invariant of ScreenPresentable, which needs none of the layouts to come.
SInv == IInv /\ Own /\ Targets /\ Frames

\* It holds at the start.
LEMMA InitSInv == Init => SInv
<1> SUFFICES ASSUME Init PROVE SInv
    OBVIOUS
<1> USE ExecutorAssumption DEF Everyone
<1>1. /\ gpuLayout = [i \in GpuImage |-> [q \in PartsOf(i) |-> "UNDEFINED"]]
      /\ renderTarget \in Target /\ framebuffer = None
      /\ pc = [e \in Everyone |-> "idle"] /\ inFlight = {}
      /\ recorded = [e \in Everyone |-> 0] /\ steps = [e \in Everyone |-> << >>]
    BY DEF Init
<1>2. Elsewhere(<< >>)
    <2>1. << >> \in Seq({}) /\ DOMAIN << >> = {}
        OBVIOUS
    <2> QED BY <2>1 DEF Elsewhere, IsSequence
<1>3. Screen \in DOMAIN gpuLayout /\ gpuLayout[Screen][<<0, 0>>] = "UNDEFINED"
    <2>1. Screen \in GpuImage /\ PartsOf(Screen) = First /\ <<0, 0>> \in First
        BY ImageAssumption, ImagesAre DEF PartsOf, First
    <2> QED BY <1>1, <2>1
<1>4. Frames
    BY <1>1, <1>2, <1>3 DEF Frames, Undisturbed
<1> QED BY <1>1, <1>4, InitIInv DEF SInv, Own, Targets

\* It is inductive.
LEMMA SInvStep == SInv /\ [Next]_vars => SInv'
<1> SUFFICES ASSUME SInv, [Next]_vars PROVE SInv'
    OBVIOUS
<1>1. IInv'
    BY CommitsStep, NumberedStep, OrderStep DEF SInv, IInv
<1>2. Own' /\ Targets' /\ Frames'
    BY OwnStep, TargetsStep, FramesStep DEF SInv, IInv
<1> QED BY <1>1, <1>2 DEF SInv

\* Without a blit of the displayer in flight the image is undisturbed.
LEMMA SInvPresentable == SInv => ScreenPresentable
<1> SUFFICES ASSUME SInv, last[Display] \notin Flying
             PROVE  gpuLayout[Screen][<<0, 0>>] \in {"PRESENT", "UNDEFINED"}
    BY DEF ScreenPresentable
<1>1. ASSUME NEW s \in inFlight, s.executor = Display PROVE FALSE
    <2>1. s.id \in Before({last[Display]})
        BY <1>1 DEF SInv, Own
    <2>2. \A u \in inFlight : u.id # last[Display]
        BY DEF Flying
    <2> QED BY <2>1, <2>2 DEF Before
<1> QED BY <1>1 DEF SInv, Frames, Undisturbed

\* When the last submission of the displayer is over, the image of the swapchain can be
\* presented, or is as the swapchain gave it: displayFrame ends every frame with the layout
\* the present needs, and no commit of the application, which may have any mip levels,
\* layers and targets, names the image.
THEOREM ScreenStaysPresentable == Spec => []ScreenPresentable
<1>1. Spec => []SInv
    BY InitSInv, SInvStep, PTL DEF Spec
<1>2. SInv => ScreenPresentable
    BY SInvPresentable
<1> QED BY <1>1, <1>2, PTL
=============================================================================
