------------------------- MODULE NativeAdaptersProofs -------------------------
(***************************************************************************)
(* Proofs about the adapters between the product and its system: first     *)
(* about each of them by itself, then (EachIsItself) about all of them.    *)
(***************************************************************************)
EXTENDS NativeAdapters, Sequences, WellFoundedInduction, FiniteSetTheorems, TLAPS

-----------------------------------------------------------------------------
(* The Windows adapter.                                                    *)

(* What an adapter may own.                                                *)
LEMMA OwnershipForms ==
  /\ Unowned \in Ownership
  /\ \A handle \in 1 .. MaxRequests :
       Owned(handle) \in Ownership /\ CleanupDebt(handle) \in Ownership
  /\ \A owned \in Ownership :
       \/ owned = Unowned
       \/ \E handle \in 1 .. MaxRequests :
            owned = Owned(handle) \/ owned = CleanupDebt(handle)
BY DEF Ownership, Handle

LEMMA WindowsInit == Init => InductiveInvariant
<1> SUFFICES ASSUME Init PROVE InductiveInvariant
  OBVIOUS
<1>1. TypeOK
  <2>1. ownership \in Ownership /\ dropped \in BOOLEAN
    BY OwnershipForms DEF Init
  <2>2. created \in 0 .. MaxRequests /\ open \subseteq 1 .. created
    BY RequestsAssumption DEF Init
  <2>3. awake \subseteq open
    BY DEF Init
  <2> QED
    BY <2>1, <2>2, <2>3 DEF TypeOK
<1>2. NoRequestIsForgotten /\ ReportedProtectionIsReal
  BY DEF Init, NoRequestIsForgotten, ReportedProtectionIsReal, Unowned, NoHandle
<1> QED
  BY <1>1, <1>2 DEF InductiveInvariant

(* What an adapter still in use looks like from the system's side.         *)
LEMMA InUse ==
  ASSUME InductiveInvariant, ~dropped
  PROVE  /\ created \in 0 .. MaxRequests
         /\ open = {ownership.handle} \ {0}
         /\ ownership.state = "Active" =>
              /\ awake = {ownership.handle}
              /\ ownership.handle \in 1 .. MaxRequests
              /\ ownership.handle \in 1 .. created
              /\ open = {ownership.handle}
         /\ ownership.state # "Active" => awake = {}
<1>1. /\ created \in 0 .. MaxRequests
      /\ awake \subseteq open
      /\ open \subseteq 1 .. created
      /\ open = {ownership.handle} \ {0}
      /\ ownership.state = "Active" <=> awake # {}
      /\ ownership \in Ownership
  BY DEF InductiveInvariant, TypeOK, NoRequestIsForgotten, NoHandle,
         ReportedProtectionIsReal
<1>2. ASSUME ownership.state = "Active"
      PROVE  ownership.handle \in 1 .. MaxRequests
  BY <1>1, <1>2, OwnershipForms DEF Unowned, Owned, CleanupDebt
<1>3. ASSUME ownership.state = "Active"
      PROVE  /\ open = {ownership.handle}
             /\ awake = {ownership.handle}
             /\ ownership.handle \in 1 .. created
  <2>1. ownership.handle # 0
    BY <1>2, <1>3, RequestsAssumption
  <2>2. open = {ownership.handle}
    BY <1>1, <2>1
  <2> QED
    BY <1>1, <1>3, <2>2
<1> QED
  BY <1>1, <1>2, <1>3

LEMMA WindowsNext == InductiveInvariant /\ [Next]_vars => InductiveInvariant'
<1> SUFFICES ASSUME InductiveInvariant, [Next]_vars PROVE InductiveInvariant'
  OBVIOUS
<1> USE DEF NoHandle, NewHandle, DebtPaid
<1>i. TypeOK
  BY DEF InductiveInvariant
<1>g. ASSUME ownership' \in Ownership, dropped' \in BOOLEAN,
             created' \in 0 .. MaxRequests,
             open' \subseteq 1 .. created', awake' \subseteq open',
             ~dropped' => open' = {ownership'.handle} \ {0},
             ~dropped' => (ownership'.state = "Active" <=> awake' # {})
      PROVE  InductiveInvariant'
  BY <1>g DEF InductiveInvariant, TypeOK, NoRequestIsForgotten,
              ReportedProtectionIsReal
<1>1. ASSUME NEW ok \in BOOLEAN, Acquire(ok), ownership.state # "Active"
      PROVE  InductiveInvariant'
  <2>1. dropped = FALSE /\ ownership.state # "Active"
    BY <1>1, <1>i DEF Acquire, TypeOK
  <2>2. /\ open = {ownership.handle} \ {0}
        /\ open \ {ownership.handle} = {}
        /\ awake = {}
        /\ created \in 0 .. MaxRequests
    BY <2>1, InUse
  <2>3. CASE DebtRefused
    BY <2>3, <1>i, <1>g
       DEF DebtRefused, adapterVars, systemVars, TypeOK, InductiveInvariant,
           NoRequestIsForgotten, ReportedProtectionIsReal
  <2>4. CASE CreateRefused
    <3>1. /\ ownership' = Unowned /\ open' = {} /\ awake' = {}
          /\ created' = created /\ dropped' = FALSE
      BY <2>1, <2>2, <2>4 DEF CreateRefused
    <3> QED
      BY <3>1, <2>2, <1>g, OwnershipForms DEF Unowned
  <2>5. ASSUME created < MaxRequests, created' = created + 1
        PROVE  /\ created' \in 1 .. MaxRequests
               /\ created' \in Handle
    BY <2>2, <2>5, RequestsAssumption DEF Handle
  <2>6. ASSUME NEW closed \in BOOLEAN, SetRefused(closed)
        PROVE  InductiveInvariant'
    <3>1. /\ created' \in Handle
          /\ created' \in 1 .. MaxRequests
          /\ created' = created + 1
          /\ awake' = {}
          /\ dropped' = FALSE
      BY <2>1, <2>2, <2>5, <2>6 DEF SetRefused
    <3>2. CASE closed
      <4>1. ownership' = Unowned /\ open' = {}
        BY <3>1, <3>2, <2>2, <2>6 DEF SetRefused
      <4> QED
        <5>1. /\ ownership' \in Ownership
              /\ ownership'.state = "Inactive" /\ ownership'.handle = 0
          BY <4>1, OwnershipForms DEF Unowned
        <5>2. created' \in 0 .. MaxRequests
          BY <3>1, RequestsAssumption
        <5> QED
          BY <5>1, <5>2, <4>1, <3>1, <1>g
    <3>3. CASE ~closed
      <4>1. ownership' = CleanupDebt(created') /\ open' = {created'}
        BY <3>1, <3>3, <2>2, <2>6 DEF SetRefused
      <4> QED
        <5>1. ownership' \in Ownership
          BY <4>1, <3>1, OwnershipForms
        <5>2. ownership'.handle = created' /\ ownership'.state = "CleanupDebt"
          BY <4>1 DEF CleanupDebt
        <5>3. open' \subseteq 1 .. created' /\ created' \in 0 .. MaxRequests
          BY <4>1, <3>1, RequestsAssumption
        <5>4. open' = {ownership'.handle} \ {0}
          BY <4>1, <5>2, <3>1, RequestsAssumption
        <5> QED
          BY <3>1, <5>1, <5>2, <5>3, <5>4, <1>g
    <3> QED
      BY <3>2, <3>3
  <2>7. CASE Acquired
    <3>1. /\ created' \in Handle
          /\ created' \in 1 .. MaxRequests
          /\ dropped' = FALSE
      BY <2>1, <2>5, <2>7 DEF Acquired
    <3>2. /\ ownership' = Owned(created')
          /\ open' = {created'}
          /\ awake' = {created'}
      BY <2>2, <2>7 DEF Acquired
    <3> QED
      <4>1. ownership' \in Ownership
        BY <3>1, <3>2, OwnershipForms
      <4>2. ownership'.handle = created' /\ ownership'.state = "Active"
        BY <3>2 DEF Owned
      <4>3. open' \subseteq 1 .. created' /\ created' \in 0 .. MaxRequests
        BY <3>1, <3>2, RequestsAssumption
      <4>4. open' = {ownership'.handle} \ {0}
        BY <4>2, <3>1, <3>2, RequestsAssumption
      <4> QED
        BY <3>1, <3>2, <4>1, <4>2, <4>3, <4>4, <1>g
  <2> QED
    BY <1>1, <2>3, <2>4, <2>6, <2>7 DEF Acquire
<1>2. ASSUME NEW ok \in BOOLEAN, Release(ok), ownership.state = "Active"
      PROVE  InductiveInvariant'
  <2>1. /\ dropped = FALSE
        /\ ownership.state = "Active"
        /\ ownership.handle \in 1 .. MaxRequests
        /\ open = {ownership.handle}
        /\ awake = {ownership.handle}
        /\ created \in 0 .. MaxRequests
        /\ ownership.handle \in 1 .. created
    BY <1>2, <1>i, InUse DEF Release, TypeOK
  <2>2. CASE ClearRefused
    BY <2>2, <1>i, <1>g
       DEF ClearRefused, adapterVars, systemVars, TypeOK, InductiveInvariant,
           NoRequestIsForgotten, ReportedProtectionIsReal
  <2>3. ASSUME NEW closed \in BOOLEAN, Cleared(closed) PROVE InductiveInvariant'
    <3>1. awake' = {} /\ dropped' = FALSE /\ created' = created
      BY <2>1, <2>3 DEF Cleared
    <3>2. CASE closed
      <4>1. ownership' = Unowned /\ open' = {}
        BY <3>2, <2>1, <2>3 DEF Cleared
      <4> QED
        BY <4>1, <3>1, <2>1, <1>g, OwnershipForms DEF Unowned
    <3>3. CASE ~closed
      <4>1. /\ ownership' = CleanupDebt(ownership.handle)
            /\ open' = {ownership.handle}
        BY <3>3, <2>1, <2>3 DEF Cleared
      <4> QED
        <5>1. ownership' \in Ownership
          BY <4>1, <2>1, OwnershipForms
        <5>2. /\ ownership'.handle = ownership.handle
              /\ ownership'.state = "CleanupDebt"
          BY <4>1 DEF CleanupDebt
        <5>3. open' = {ownership'.handle} \ {0}
          BY <4>1, <5>2, <2>1, RequestsAssumption
        <5> QED
          BY <3>1, <4>1, <2>1, <5>1, <5>2, <5>3, <1>g
    <3> QED
      BY <3>2, <3>3
  <2> QED
    BY <1>2, <2>2, <2>3 DEF Release
<1>3. CASE Drop
  <2>1. dropped' /\ ownership' \in Ownership /\ UNCHANGED created
    BY <1>3, OwnershipForms DEF Drop
  <2>2. open' \subseteq open
    BY <1>3 DEF Drop
  <2>3. awake' \subseteq open'
    BY <1>3, <1>i DEF Drop, TypeOK
  <2> QED
    BY <2>1, <2>2, <2>3, <1>i, <1>g DEF TypeOK
<1>4. CASE UNCHANGED vars
  BY <1>4, <1>i, <1>g
     DEF vars, adapterVars, systemVars, TypeOK, InductiveInvariant,
         NoRequestIsForgotten, ReportedProtectionIsReal
<1>5. ASSUME NEW ok \in BOOLEAN,
             \/ Acquire(ok) /\ ownership.state = "Active"
             \/ Release(ok) /\ ownership.state # "Active"
      PROVE  UNCHANGED vars
  BY <1>5 DEF Acquire, Release
<1> QED
  BY <1>1, <1>2, <1>3, <1>4, <1>5 DEF Next

LEMMA WindowsInvariant == Spec => []InductiveInvariant
BY WindowsInit, WindowsNext, PTL DEF Spec

(* The adapter owns every request it has opened, whatever calls failed     *)
(* (windows.rs acquire, release).                                          *)
LEMMA WindowsOwns == Spec => []NoRequestIsForgotten
<1>1. InductiveInvariant => NoRequestIsForgotten
  BY DEF InductiveInvariant
<1> QED
  BY <1>1, WindowsInvariant, PTL

(* The protection the adapter reports is the protection the system grants  *)
(* (windows.rs state).                                                     *)
LEMMA WindowsReports == Spec => []ReportedProtectionIsReal
<1>1. InductiveInvariant => ReportedProtectionIsReal
  BY DEF InductiveInvariant
<1> QED
  BY <1>1, WindowsInvariant, PTL

-----------------------------------------------------------------------------
(* Every acquisition of the adapter is one of the inhibitor.               *)
LEMMA AcquireIsAcquire ==
  ASSUME InductiveInvariant, NEW ok \in BOOLEAN, Acquire(ok)
  PROVE  Inhibitor!Acquire(ok)
<1>1. CASE ownership.state = "Active"
  <2>1. ok /\ awake # {} /\ UNCHANGED awake
    BY <1>1, InUse DEF Acquire, vars, systemVars
  <2> QED
    BY <2>1 DEF Inhibitor!Acquire
<1>2. CASE ownership.state # "Active"
  <2>1. awake = {}
    BY <1>2, InUse DEF Acquire
  <2>2. CASE ok
    <3>1. awake' # {}
      BY <1>2, <2>2 DEF Acquire, Acquired
    <3> QED
      BY <2>1, <2>2, <3>1 DEF Inhibitor!Acquire
  <2>3. CASE ~ok
    <3>1. UNCHANGED awake
      BY <1>2, <2>3
         DEF Acquire, DebtRefused, CreateRefused, SetRefused, systemVars
    <3> QED
      BY <2>1, <2>3, <3>1 DEF Inhibitor!Acquire
  <2> QED
    BY <2>2, <2>3
<1> QED
  BY <1>1, <1>2

(* Every release of the adapter is one of the inhibitor.                   *)
LEMMA ReleaseIsRelease ==
  ASSUME InductiveInvariant, NEW ok \in BOOLEAN, Release(ok)
  PROVE  Inhibitor!Release(ok)
<1>1. CASE ownership.state # "Active"
  <2>1. ok /\ awake = {} /\ UNCHANGED awake
    BY <1>1, InUse DEF Release, vars, systemVars
  <2> QED
    BY <2>1 DEF Inhibitor!Release
<1>2. CASE ownership.state = "Active"
  <2>1. awake = {ownership.handle}
    BY <1>2, InUse DEF Release
  <2>2. CASE ok
    <3>1. awake' = {}
      BY <1>2, <2>1, <2>2 DEF Release, Cleared
    <3> QED
      BY <2>1, <2>2, <3>1 DEF Inhibitor!Release
  <2>3. CASE ~ok
    BY <2>1, <2>3 DEF Inhibitor!Release, Inhibitor!ProtectionState
  <2> QED
    BY <2>2, <2>3
<1> QED
  BY <1>1, <1>2

(* The adapter is a sleep inhibitor (sleep_inhibitor/mod.rs), judged by    *)
(* what the system does and not by what the adapter says of itself.        *)
LEMMA WindowsImplements == Spec => ImplementsInhibitor
<1>1. Init => Inhibitor!InhibitorInit
  BY DEF Init, Inhibitor!InhibitorInit
<1>2. InductiveInvariant /\ [Next]_vars => [CallsAreInhibitorCalls]_vars
  BY AcquireIsAcquire, ReleaseIsRelease DEF CallsAreInhibitorCalls
<1> QED
  BY <1>1, <1>2, WindowsInvariant, PTL DEF Spec, ImplementsInhibitor

-----------------------------------------------------------------------------
(* The macOS adapter.                                                      *)

MacOsInv == MacOs!TypeOK /\ MacOs!OwnsWhatIsHonoured

LEMMA MacOsInit == MacOs!Init => MacOsInv
<1> SUFFICES ASSUME MacOs!Init PROVE MacOsInv
  OBVIOUS
<1>1. assertionId \in Nat /\ macDropped \in BOOLEAN /\ macCreated \in Nat
  BY DEF MacOs!Init, MacOs!None
<1>2. honoured \subseteq 1 .. macCreated /\ honoured = {assertionId} \ {MacOs!None}
  BY DEF MacOs!Init
<1> QED
  BY <1>1, <1>2 DEF MacOsInv, MacOs!TypeOK, MacOs!OwnsWhatIsHonoured

LEMMA MacOsNext == MacOsInv /\ [MacOs!Next]_(MacOs!vars) => MacOsInv'
<1> SUFFICES ASSUME MacOsInv, [MacOs!Next]_(MacOs!vars) PROVE MacOsInv'
  OBVIOUS
<1> USE DEF MacOsInv, MacOs!TypeOK, MacOs!OwnsWhatIsHonoured, MacOs!None, MacOs!IsActive
<1>1. ASSUME ~MacOs!IsActive, ~macDropped, MacOs!Created PROVE MacOsInv'
  <2>1. honoured = {} /\ macDropped' = FALSE
    BY <1>1 DEF MacOs!Created
  <2>2. macCreated' = macCreated + 1 /\ assertionId' = macCreated + 1
    BY <1>1 DEF MacOs!Created
  <2>3. honoured' = {macCreated + 1}
    BY <1>1, <2>1 DEF MacOs!Created
  <2>4. /\ assertionId' \in Nat
        /\ macCreated' \in Nat
        /\ honoured' \subseteq 1 .. macCreated'
    BY <2>2, <2>3
  <2>5. honoured' = {assertionId'} \ {0}
    BY <2>2, <2>3
  <2>6. MacOs!TypeOK'
    BY <2>1, <2>4
  <2>7. MacOs!OwnsWhatIsHonoured'
    BY <2>5
  <2> QED
    BY <2>6, <2>7
<1>2. ASSUME NEW ok \in BOOLEAN, MacOs!IsActive, ~macDropped, MacOs!ReleaseAssertion(ok)
      PROVE  MacOsInv'
  <2>1. honoured = {assertionId} /\ macDropped' = FALSE /\ macCreated' = macCreated
    BY <1>2 DEF MacOs!ReleaseAssertion
  <2>2. CASE ok
    BY <1>2, <2>1, <2>2 DEF MacOs!ReleaseAssertion
  <2>3. CASE ~ok
    BY <1>2, <2>1, <2>3 DEF MacOs!ReleaseAssertion
  <2> QED
    BY <2>2, <2>3
<1>3. CASE MacOs!Drop
  BY <1>3 DEF MacOs!Drop
<1>4. CASE UNCHANGED MacOs!vars
  BY <1>4 DEF MacOs!vars
<1> QED
  BY <1>1, <1>2, <1>3, <1>4 DEF MacOs!Next, MacOs!Acquire, MacOs!Release

LEMMA MacOsInvariant == MacOs!Spec => []MacOsInv
BY MacOsInit, MacOsNext, PTL DEF MacOs!Spec

(* The adapter owns exactly what the system honours (macos.rs acquire,     *)
(* release).                                                               *)
LEMMA MacOsOwns == MacOs!Spec => []MacOs!OwnsWhatIsHonoured
<1>1. MacOsInv => MacOs!OwnsWhatIsHonoured
  BY DEF MacOsInv
<1> QED
  BY <1>1, MacOsInvariant, PTL

(* Every call of the adapter is the same call of the inhibitor.            *)
LEMMA MacOsCalls ==
  ASSUME MacOsInv, NEW ok \in BOOLEAN
  PROVE  /\ MacOs!Acquire(ok) => MacOs!Inhibitor!Acquire(ok)
         /\ MacOs!Release(ok) => MacOs!Inhibitor!Release(ok)
<1>1. ~macDropped => (MacOs!IsActive <=> honoured # {})
  BY DEF MacOsInv, MacOs!OwnsWhatIsHonoured, MacOs!IsActive
<1>2. ASSUME MacOs!Acquire(ok) PROVE MacOs!Inhibitor!Acquire(ok)
  BY <1>1, <1>2
     DEF MacOs!Acquire, MacOs!Created, MacOs!vars, MacOs!Inhibitor!Acquire
<1>3. ASSUME MacOs!Release(ok) PROVE MacOs!Inhibitor!Release(ok)
  <2>1. CASE MacOs!IsActive
    <3>1. honoured = {assertionId}
      BY <1>1, <1>3, <2>1
         DEF MacOs!Release, MacOsInv, MacOs!OwnsWhatIsHonoured
    <3>2. ok => honoured' = {}
      BY <1>3, <2>1, <3>1 DEF MacOs!Release, MacOs!ReleaseAssertion
    <3> QED
      BY <3>1, <3>2 DEF MacOs!Inhibitor!Release, MacOs!Inhibitor!ProtectionState
  <2>2. CASE ~MacOs!IsActive
    BY <1>1, <1>3, <2>2 DEF MacOs!Release, MacOs!vars, MacOs!Inhibitor!Release
  <2> QED
    BY <2>1, <2>2
<1> QED
  BY <1>2, <1>3

(* The adapter is a sleep inhibitor (sleep_inhibitor/mod.rs), judged by    *)
(* what the system does and not by what the adapter says of itself.        *)
LEMMA MacOsImplements == MacOs!Spec => MacOs!ImplementsInhibitor
<1>1. MacOs!Init => MacOs!Inhibitor!InhibitorInit
  BY DEF MacOs!Init, MacOs!Inhibitor!InhibitorInit
<1>2. MacOsInv /\ [MacOs!Next]_(MacOs!vars) => [MacOs!CallsAreInhibitorCalls]_(MacOs!vars)
  BY MacOsCalls DEF MacOs!CallsAreInhibitorCalls
<1> QED
  BY <1>1, <1>2, MacOsInvariant, PTL DEF MacOs!Spec, MacOs!ImplementsInhibitor

-----------------------------------------------------------------------------
(* The power source observer.                                              *)

(* Every variable has its type.                                            *)
LEMMA PowerTypes == Power!Spec => []Power!TypeOK
<1>1. Power!Init => Power!TypeOK
  <2> SUFFICES ASSUME Power!Init PROVE Power!TypeOK
    OBVIOUS
  <2>1. snapshot \in [source : Power!Sources,
                      health : {"Starting", "Observing", "Degraded", "Stopped"},
                      failure : {"None", "Registration", "Sample", "Unregistration"}]
    BY DEF Power!Init, Power!Sources
  <2>2. toPolicy \in [Power!Threads -> Power!Sources \cup {"Nothing"}]
    BY DEF Power!Init
  <2>3. QED
    BY <2>1, <2>2 DEF Power!Init, Power!TypeOK, Power!Sources
<1>2. Power!TypeOK /\ [Power!Next]_(Power!vars) => Power!TypeOK'
  <2> SUFFICES ASSUME Power!TypeOK, [Power!Next]_(Power!vars) PROVE Power!TypeOK'
    OBVIOUS
  <2> USE DEF Power!TypeOK, Power!Sources, Power!Threads
  <2>1. CASE Power!Prepare
    BY <2>1 DEF Power!Prepare
  <2>2. CASE Power!Register
    BY <2>2 DEF Power!Register, Power!Publish, Power!Record, Power!Shown,
                Power!Readings
  <2>3. CASE Power!RegistrationFails
    BY <2>3 DEF Power!RegistrationFails, Power!Publish, Power!Record,
                Power!Shown
  <2>4. CASE Power!SystemNotifies
    BY <2>4 DEF Power!SystemNotifies
  <2>5. CASE Power!FindObserver
    BY <2>5 DEF Power!FindObserver
  <2>6. CASE Power!PublishNotification
    BY <2>6 DEF Power!PublishNotification, Power!Publish, Power!Record,
                Power!Shown, Power!Readings
  <2>7. CASE Power!Unregister
    BY <2>7 DEF Power!Unregister
  <2>8. CASE Power!ShutDownElsewhere
    BY <2>8 DEF Power!ShutDownElsewhere
  <2>9. CASE Power!Release
    BY <2>9 DEF Power!Release
  <2>10. CASE Power!Stop
    BY <2>10 DEF Power!Stop, Power!Stopped, Power!Record
  <2>11. CASE Power!DropRuntime
    BY <2>11 DEF Power!DropRuntime, Power!Stopped, Power!Record
  <2>12. CASE \E thread \in Power!Threads : Power!HandToPolicy(thread)
    BY <2>12 DEF Power!HandToPolicy
  <2>13. CASE UNCHANGED Power!vars
    BY <2>13 DEF Power!vars
  <2>14. QED
    BY <2>1, <2>2, <2>3, <2>4, <2>5, <2>6, <2>7, <2>8, <2>9, <2>10, <2>11,
       <2>12, <2>13 DEF Power!Next
<1>3. QED
  BY <1>1, <1>2, PTL DEF Power!Spec

-----------------------------------------------------------------------------
(* What start and shutdown rely on at each of their stages.                *)

(* Nothing is heard from the system before it is asked to notify.          *)
NothingBeforeRegistration ==
  stage \in {"NotStarted", "Registering", "Failed"} => ~registered /\ ~Power!Notified

(* A registration is only asked for with the way to the observer in place. *)
PreparedToRegister == stage \in {"Registering", "Running"} => reachable

(* On macOS a source that was invalidated, on the thread it notifies, is   *)
(* silent for good.                                                        *)
InvalidatedIsSilent ==
  platform = "MacOs" /\ ~registered => ~Power!Notified

(* On Windows the token is gone once it was released.                      *)
ReleasedIsUnreachable ==
  platform = "Windows" /\ stage \in {"Released", "Stopped", "Dropped"} =>
    ~reachable

StagesInv ==
  /\ NothingBeforeRegistration
  /\ PreparedToRegister
  /\ InvalidatedIsSilent
  /\ ReleasedIsUnreachable
  /\ Power!ContextOutlivesSource
  /\ stage = "Unregistered" /\ platform = "MacOs" => ~registered

(* The stages are as start and shutdown leave them, in every state.        *)
LEMMA PowerStages == Power!Spec => []StagesInv
<1> USE DEF NothingBeforeRegistration, PreparedToRegister, InvalidatedIsSilent,
            ReleasedIsUnreachable, Power!ContextOutlivesSource, StagesInv, Power!Notified
<1>1. Power!Init => StagesInv
  BY DEF Power!Init, Power!Threads
<1>2. Power!TypeOK /\ StagesInv /\ [Power!Next]_(Power!vars) => StagesInv'
  <2> SUFFICES ASSUME Power!TypeOK, StagesInv, [Power!Next]_(Power!vars) PROVE StagesInv'
    OBVIOUS
  <2> USE DEF Power!TypeOK, Power!Sources, Power!Threads
  <2>1. CASE Power!Prepare
    BY <2>1 DEF Power!Prepare
  <2>2. CASE Power!Register
    BY <2>2 DEF Power!Register, Power!Publish, Power!Record, Power!Shown,
                Power!Readings
  <2>3. CASE Power!RegistrationFails
    BY <2>3 DEF Power!RegistrationFails, Power!Publish, Power!Record,
                Power!Shown
  <2>4. CASE Power!SystemNotifies
    BY <2>4 DEF Power!SystemNotifies
  <2>5. CASE Power!FindObserver
    BY <2>5 DEF Power!FindObserver
  <2>6. CASE Power!PublishNotification
    BY <2>6 DEF Power!PublishNotification, Power!Publish, Power!Record,
                Power!Shown, Power!Readings
  <2>7. CASE Power!Unregister
    BY <2>7 DEF Power!Unregister
  <2>8. CASE Power!ShutDownElsewhere
    BY <2>8 DEF Power!ShutDownElsewhere
  <2>9. CASE Power!Release
    BY <2>9 DEF Power!Release
  <2>10. CASE Power!Stop
    <3>1. /\ stage = "Released" /\ stage' = "Stopped"
          /\ UNCHANGED <<platform, reachable, registered, notification>>
          /\ toPolicy'["Notification"] = toPolicy["Notification"]
      BY <2>10 DEF Power!Stop, Power!Stopped, Power!Record
    <3> QED
      BY <3>1
  <2>11. CASE Power!DropRuntime
    <3>1. /\ stage = "Stopped" /\ stage' = "Dropped"
          /\ UNCHANGED <<platform, reachable, registered, notification>>
          /\ toPolicy'["Notification"] = toPolicy["Notification"]
      BY <2>11 DEF Power!DropRuntime, Power!Stopped, Power!Record
    <3> QED
      BY <3>1
  <2>12. CASE \E thread \in Power!Threads : Power!HandToPolicy(thread)
    BY <2>12 DEF Power!HandToPolicy
  <2>13. CASE UNCHANGED Power!vars
    BY <2>13 DEF Power!vars
  <2>14. QED
    BY <2>1, <2>2, <2>3, <2>4, <2>5, <2>6, <2>7, <2>8, <2>9, <2>10, <2>11,
       <2>12, <2>13 DEF Power!Next
<1>3. QED
  BY <1>1, <1>2, PowerTypes, PTL DEF Power!Spec

(* The system never calls back into a context that was freed.              *)
LEMMA PowerContexts == Power!Spec => []Power!ContextOutlivesSource
<1>1. StagesInv => Power!ContextOutlivesSource
  BY DEF StagesInv
<1>2. QED
  BY <1>1, PowerStages, PTL

(* On Windows a notification that comes after shutdown changes nothing.    *)
LEMMA PowerLateNotifications == Power!Spec => Power!LateNotificationsAreIgnored
<1> DEFINE Late == /\ platform = "Windows" /\ stage = "Dropped"
                   /\ Power!PublishingNothing /\ notification # "Found"
<1>1. Power!TypeOK /\ StagesInv /\ [Power!Next]_(Power!vars) =>
        [Late => /\ UNCHANGED <<snapshot, policyPower>>
                 /\ notification' # "Found"]_(Power!vars)
  <2> SUFFICES ASSUME Power!TypeOK, StagesInv, Power!Next, Late
               PROVE  /\ UNCHANGED <<snapshot, policyPower>>
                      /\ notification' # "Found"
    BY DEF Power!vars
  <2>1. /\ ~Power!Prepare /\ ~Power!Register /\ ~Power!RegistrationFails /\ ~Power!PublishNotification
        /\ ~Power!Unregister /\ ~Power!ShutDownElsewhere /\ ~Power!Release /\ ~Power!Stop /\ ~Power!DropRuntime
    BY DEF Power!Prepare, Power!Register, Power!RegistrationFails,
           Power!PublishNotification, Power!Unregister,
           Power!ShutDownElsewhere, Power!Release, Power!Stop, Power!DropRuntime
  <2>2. ~ \E thread \in Power!Threads : Power!HandToPolicy(thread)
    BY DEF Power!PublishingNothing, Power!HandToPolicy
  <2>3. CASE Power!SystemNotifies
    BY <2>3 DEF Power!SystemNotifies
  <2>4. CASE Power!FindObserver
    BY <2>4 DEF Power!FindObserver, StagesInv, ReleasedIsUnreachable
  <2>5. QED
    BY <2>1, <2>2, <2>3, <2>4 DEF Power!Next
<1>2. QED
  BY <1>1, PowerTypes, PowerStages, PTL
     DEF Power!Spec, Power!LateNotificationsAreIgnored

-----------------------------------------------------------------------------
(* What is recorded is handed over before anything else is recorded.       *)

StartIsQuiet ==
  \/ stage \in {"NotStarted", "Registering"}
  \/ platform = "Windows" /\ stage = "Running"
  => Power!OwnerIdle

Recorded(thread) ==
  toPolicy[thread] # "Nothing" => toPolicy[thread] = snapshot.source

HandoverInv ==
  /\ StartIsQuiet
  /\ ~Power!ShutdownOverlaps =>
       /\ ~Power!OwnerIdle => ~Power!Notified
       /\ Recorded("Owner")
       /\ Recorded("Notification")
       /\ Power!PublishingNothing => policyPower = snapshot.source
       /\ snapshot.source # "Unknown" => snapshot.health = "Observing"

LEMMA HandoverStep ==
  Power!TypeOK /\ StagesInv /\ HandoverInv /\ [Power!Next]_(Power!vars) => HandoverInv'
<1> SUFFICES ASSUME Power!TypeOK, StagesInv, HandoverInv, [Power!Next]_(Power!vars)
             PROVE  HandoverInv'
  OBVIOUS
<1> USE DEF HandoverInv, StartIsQuiet, Recorded, Power!PublishingNothing, Power!OwnerIdle,
            Power!Notified, Power!ShutdownOverlaps, Power!Threads
<1>1. CASE Power!Prepare
  BY <1>1 DEF Power!Prepare
<1>2. CASE Power!Register
  BY <1>2 DEF Power!Register, Power!Publish, Power!Record, Power!Shown,
              Power!Readings, Power!Sources, Power!TypeOK,
              StagesInv, NothingBeforeRegistration
<1>3. CASE Power!RegistrationFails
  BY <1>3 DEF Power!RegistrationFails, Power!Publish, Power!Record,
              Power!Shown, Power!Sources, Power!TypeOK,
              StagesInv, NothingBeforeRegistration
<1>4. CASE Power!SystemNotifies
  BY <1>4 DEF Power!SystemNotifies, Power!TypeOK, StagesInv,
              NothingBeforeRegistration
<1>5. CASE Power!FindObserver
  BY <1>5 DEF Power!FindObserver
<1>6. CASE Power!PublishNotification
  BY <1>6 DEF Power!PublishNotification, Power!Publish, Power!Record,
              Power!Shown, Power!Readings, Power!Sources, Power!TypeOK
<1>7. CASE Power!Unregister
  BY <1>7 DEF Power!Unregister, Power!TypeOK
<1>8. CASE Power!ShutDownElsewhere
  BY <1>8 DEF Power!ShutDownElsewhere, Power!TypeOK
<1>9. CASE Power!Release
  BY <1>9 DEF Power!Release, Power!TypeOK
<1>10. CASE Power!Stop
  BY <1>10
     DEF Power!Stop, Power!Stopped, Power!Record, Power!TypeOK, StagesInv,
         InvalidatedIsSilent
<1>11. CASE Power!DropRuntime
  BY <1>11
     DEF Power!DropRuntime, Power!Stopped, Power!Record, Power!TypeOK,
         StagesInv, InvalidatedIsSilent
<1>12. CASE \E thread \in Power!Threads : Power!HandToPolicy(thread)
  BY <1>12 DEF Power!HandToPolicy, Power!TypeOK
<1>13. CASE UNCHANGED Power!vars
  BY <1>13 DEF Power!vars
<1>14. QED
  BY <1>1, <1>2, <1>3, <1>4, <1>5, <1>6, <1>7, <1>8, <1>9, <1>10, <1>11,
     <1>12, <1>13 DEF Power!Next

(* Outside publications, and but for a shutdown that overlaps a            *)
(* notification, the policy acts on the source on show.                    *)
LEMMA PowerPolicyFollows == Power!Spec => []Power!PolicyFollowsObserver
<1>1. Power!Init => HandoverInv
  BY DEF Power!Init, HandoverInv, StartIsQuiet, Recorded,
         Power!PublishingNothing, Power!OwnerIdle,
         Power!Notified, Power!ShutdownOverlaps, Power!Threads
<1>2. HandoverInv => Power!PolicyFollowsObserver
  BY DEF HandoverInv, Power!PolicyFollowsObserver
<1>3. QED
  BY <1>1, <1>2, HandoverStep, PowerTypes, PowerStages, PTL DEF Power!Spec

-----------------------------------------------------------------------------
(* Launch at login.                                                        *)

(* An operation only runs with settings that could be loaded; one that     *)
(* ended without a failure saw the system do what was saved.               *)
LoginInv ==
  /\ saved \in BOOLEAN /\ login \in BOOLEAN /\ touched \in BOOLEAN
  /\ writable \in BOOLEAN /\ available \in BOOLEAN
  /\ loginStage \in {"Down", "Idle", "Observe", "Apply", "Verify"}
  /\ loginStage \in {"Observe", "Apply", "Verify"} => writable
  /\ loginStage = "Idle" /\ available /\ failure = "None" =>
       writable /\ (~touched => login = saved)

LEMMA LoginInvariant == Login!Spec => []LoginInv
<1>1. Login!Init => LoginInv
  BY DEF Login!Init, LoginInv
<1>2. LoginInv /\ [Login!Next]_(Login!vars) => LoginInv'
  <2> SUFFICES ASSUME LoginInv, [Login!Next]_(Login!vars) PROVE LoginInv'
    OBVIOUS
  <2> USE DEF LoginInv, Login!Record, Login!Observation, Login!Desired
  <2>1. CASE Login!Reconcile
    BY <2>1 DEF Login!Reconcile
  <2>2. CASE Login!Inspect
    BY <2>2 DEF Login!Inspect
  <2>3. CASE Login!Toggle
    BY <2>3 DEF Login!Toggle
  <2>4. CASE Login!Apply
    BY <2>4 DEF Login!Apply
  <2>5. CASE Login!Verify
    BY <2>5 DEF Login!Verify
  <2>6. CASE Login!ProcessEnds
    BY <2>6 DEF Login!ProcessEnds
  <2>7. CASE Login!UserRegisters
    BY <2>7 DEF Login!UserRegisters
  <2>8. CASE UNCHANGED Login!vars
    BY <2>8 DEF Login!vars
  <2> QED
    BY <2>1, <2>2, <2>3, <2>4, <2>5, <2>6, <2>7, <2>8 DEF Login!Next
<1> QED BY <1>1, <1>2, PTL DEF Login!Spec

LEMMA LoginAgreement == LoginInv => Login!NoWarningMeansAgreement
BY DEF LoginInv, Login!NoWarningMeansAgreement, Login!Warned

-----------------------------------------------------------------------------
(* The text of a report.  It is a fold over the lengths of the lines, that *)
(* is a recursion over sets of their positions; what holds of every text is*)
(* proved by looking at the smallest set of which it would be wrong.       *)

LEMMA LeastOfNaturals ==
  ASSUME NEW set \in SUBSET Nat, set # {}
  PROVE  \E least \in set : \A n \in Nat : n < least => n \notin set
<1> DEFINE below == OpToRel(<, Nat)
<1>1. IsWellFoundedOn(below, Nat)
  BY NatLessThanWellFounded
<1>2. \A m, n \in Nat : m < n => <<m, n>> \in below
  BY DEF OpToRel
<1> HIDE DEF below
<1>3. PICK least \in set : \A n \in set : ~(<<n, least>> \in below)
  BY <1>1, WFMin
<1>4. \A n \in Nat : n < least => n \notin set
  BY <1>2, <1>3
<1> QED BY <1>4

LEMMA PositionsAreFinite ==
  ASSUME NEW top \in Nat, NEW s \in SUBSET (1 .. top)
  PROVE  /\ IsFiniteSet(s)
         /\ Cardinality(s) \in Nat
         /\ Cardinality(s) <= Cardinality(1 .. top)
         /\ Cardinality(s) = 0 <=> s = {}
<1>1. IsFiniteSet(1 .. top)
  BY FS_Interval
<1>2. IsFiniteSet(s) /\ Cardinality(s) <= Cardinality(1 .. top)
  BY <1>1, FS_Subset
<1> QED BY <1>2, FS_CardinalityType, FS_EmptySet

(* The position that is folded in last.                                    *)
Last(s) == Copying!Max(s)

LEMMA LastIsIn ==
  ASSUME NEW top \in Nat, NEW s \in SUBSET (1 .. top), s # {}
  PROVE  /\ Last(s) \in s
         /\ Cardinality(s) \in Nat \ {0}
         /\ Cardinality(s \ {Last(s)}) = Cardinality(s) - 1
<1>1. IsFiniteSet(s)
  BY PositionsAreFinite
<1> DEFINE above == {n \in Nat : \A x \in s : x <= n}
<1>2. above \in SUBSET Nat /\ top \in above
  OBVIOUS
<1>3. PICK least \in above : \A n \in Nat : n < least => n \notin above
  <2> HIDE DEF above
  <2> QED BY <1>2, LeastOfNaturals
<1>4. least \in s
  <2> SUFFICES ASSUME least \notin s PROVE FALSE
    OBVIOUS
  <2>1. \A x \in s : x < least /\ x \in 1 .. top
    BY <1>3
  <2>2. least - 1 \in Nat /\ least - 1 < least
    <3>1. PICK x \in s : TRUE
      OBVIOUS
    <3> QED BY <1>3, <2>1, <3>1
  <2>3. \A x \in s : x <= least - 1
    BY <1>3, <2>1
  <2> QED BY <1>3, <2>2, <2>3
<1>5. Last(s) \in s
  BY <1>3, <1>4 DEF Last, Copying!Max
<1>6. Cardinality(s) \in Nat /\ Cardinality(s) # 0
  BY <1>1, FS_CardinalityType, FS_EmptySet
<1>7. Cardinality(s \ {Last(s)}) = Cardinality(s) - 1
  BY <1>1, <1>5, FS_RemoveElement
<1> QED BY <1>5, <1>6, <1>7

(* The text that the lines at positions s make, by way of texts g.         *)
TextAt(g, lengths, s) ==
  IF s = {} THEN Copying!Empty
  ELSE Copying!BoundedLine(g[s \ {Last(s)}], lengths[Last(s)])

Texts(g, lengths, top) == g = [s \in SUBSET (1 .. top) |-> TextAt(g, lengths, s)]

TextsUpTo(n, g, lengths, top) ==
  \A s \in SUBSET (1 .. top) : Cardinality(s) <= n => g[s] = TextAt(g, lengths, s)

LEMMA TextsExist ==
  ASSUME NEW lengths, NEW top \in Nat
  PROVE  \E g : Texts(g, lengths, top)
<1> DEFINE bad == {n \in Nat : ~\E g : TextsUpTo(n, g, lengths, top)}
<1>1. \A s \in SUBSET (1 .. top) :
        /\ Cardinality(s) \in Nat /\ Cardinality(s) <= Cardinality(1 .. top)
        /\ Cardinality(s) = 0 <=> s = {}
  BY PositionsAreFinite
<1>2. bad = {}
  <2> SUFFICES ASSUME bad # {} PROVE FALSE
    OBVIOUS
  <2>1. bad \in SUBSET Nat
    OBVIOUS
  <2>2. PICK n \in bad : \A m \in Nat : m < n => m \notin bad
    <3> HIDE DEF bad
    <3> QED BY <2>1, LeastOfNaturals
  <2>3. n \in Nat /\ ~\E g : TextsUpTo(n, g, lengths, top)
    BY <2>2
  <2>4. CASE n = 0
    <3> DEFINE g == [s \in SUBSET (1 .. top) |-> Copying!Empty]
    <3>1. TextsUpTo(0, g, lengths, top)
      BY <1>1 DEF TextsUpTo, TextAt
    <3> QED BY <2>3, <2>4, <3>1
  <2>5. CASE n # 0
    <3>1. n - 1 \in Nat /\ n - 1 < n
      BY <2>3, <2>5
    <3>2. PICK g : TextsUpTo(n - 1, g, lengths, top)
      BY <2>2, <3>1
    <3> DEFINE h == [s \in SUBSET (1 .. top) |-> IF Cardinality(s) <= n - 1 THEN g[s]
                                        ELSE TextAt(g, lengths, s)]
    <3>3. ASSUME NEW s \in SUBSET (1 .. top), Cardinality(s) <= n
          PROVE  h[s] = TextAt(h, lengths, s)
      <4>1. h[s] = TextAt(g, lengths, s)
        BY <3>2 DEF TextsUpTo
      <4>2. CASE s = {}
        BY <4>1, <4>2 DEF TextAt
      <4>3. CASE s # {}
        <5> DEFINE r == s \ {Last(s)}
        <5>0. r \in SUBSET (1 .. top)
          OBVIOUS
        <5>1. Cardinality(r) <= n - 1
          <6>1. /\ Cardinality(s) \in Nat \ {0}
                /\ Cardinality(r) = Cardinality(s) - 1
            BY <4>3, LastIsIn
          <6> HIDE DEF r
          <6> QED BY <2>3, <3>3, <6>1
        <5>2. h[r] = g[r]
          BY <5>0, <5>1
        <5> QED BY <4>1, <5>2 DEF TextAt
      <4> QED BY <4>2, <4>3
    <3>4. TextsUpTo(n, h, lengths, top)
      <4> HIDE DEF h
      <4> QED BY <3>3 DEF TextsUpTo
    <3> QED BY <2>3, <3>4
  <2> QED BY <2>4, <2>5
<1>3. Cardinality(1 .. top) \in Nat
  BY FS_Interval, FS_CardinalityType
<1>4. PICK g : TextsUpTo(Cardinality(1 .. top), g, lengths, top)
  BY <1>2, <1>3
<1> DEFINE h == [s \in SUBSET (1 .. top) |-> g[s]]
<1>5. \A s \in SUBSET (1 .. top) : h[s] = TextAt(h, lengths, s)
  <2> SUFFICES ASSUME NEW s \in SUBSET (1 .. top) PROVE h[s] = TextAt(h, lengths, s)
    OBVIOUS
  <2>1. h[s] = TextAt(g, lengths, s)
    BY <1>1, <1>3, <1>4 DEF TextsUpTo
  <2>2. h[s \ {Last(s)}] = g[s \ {Last(s)}]
    OBVIOUS
  <2> QED BY <2>1, <2>2 DEF TextAt
<1>6. h = [s \in SUBSET (1 .. top) |-> h[s]]
  OBVIOUS
<1> HIDE DEF h
<1>7. Texts(h, lengths, top)
  BY <1>5, <1>6 DEF Texts
<1> QED BY <1>7

(* There is always room left for the marker.                               *)
Fits(text) ==
  /\ text \in [bytes : Nat, lines : Nat, omitted : BOOLEAN]
  /\ text.bytes + MarkerBytes <= ReportLimit

LEMMA LineFits ==
  ASSUME NEW text, Fits(text), NEW bytes \in Nat
  PROVE  Fits(Copying!BoundedLine(text, bytes))
<1> DEFINE Text == [bytes : Nat, lines : Nat, omitted : BOOLEAN]
           long == text.bytes + bytes + MarkerBytes > ReportLimit
           cut == [text EXCEPT !.omitted = TRUE]
           longer == [text EXCEPT !.bytes = @ + bytes, !.lines = @ + 1]
<1>1. text \in Text /\ text.bytes \in Nat /\ text.lines \in Nat
  BY DEF Fits
<1>2. Copying!BoundedLine(text, bytes) = IF text.omitted \/ long THEN cut ELSE longer
  BY DEF Copying!BoundedLine
<1>3. cut \in Text /\ cut.bytes = text.bytes
  BY <1>1
<1>4. longer \in Text /\ longer.bytes = text.bytes + bytes
  <2>1. text.bytes + bytes \in Nat /\ text.lines + 1 \in Nat
    BY <1>1
  <2> QED BY <1>1, <2>1
<1>5. ~long => longer.bytes + MarkerBytes <= ReportLimit
  BY <1>1, <1>4, ReportAssumption
<1> HIDE DEF cut, longer, long
<1> QED BY <1>2, <1>3, <1>4, <1>5 DEF Fits

LEMMA TextsFit ==
  ASSUME NEW lengths, NEW top \in Nat,
         \A i \in 1 .. top : lengths[i] \in Nat,
         NEW g, Texts(g, lengths, top)
  PROVE  Fits(g[1 .. top])
<1> DEFINE bad == {n \in Nat : \E s \in SUBSET (1 .. top) : Cardinality(s) = n /\ ~Fits(g[s])}
<1>1. \A s \in SUBSET (1 .. top) :
        /\ Cardinality(s) \in Nat
        /\ Cardinality(s) = 0 <=> s = {}
  BY PositionsAreFinite
<1>2. \A s \in SUBSET (1 .. top) : g[s] = TextAt(g, lengths, s)
  BY DEF Texts
<1> SUFFICES ASSUME bad # {} PROVE FALSE
  BY <1>1
<1>3. bad \in SUBSET Nat
  OBVIOUS
<1>4. PICK n \in bad : \A m \in Nat : m < n => m \notin bad
  <2> HIDE DEF bad
  <2> QED BY <1>3, LeastOfNaturals
<1>5. PICK s \in SUBSET (1 .. top) : Cardinality(s) = n /\ ~Fits(g[s])
  BY <1>4
<1>6. CASE s = {}
  <2>1. g[s] = Copying!Empty
    BY <1>2, <1>6 DEF TextAt
  <2>2. Fits(Copying!Empty)
    BY ReportAssumption DEF Fits, Copying!Empty
  <2> QED BY <1>5, <2>1, <2>2
<1>7. CASE s # {}
  <2> DEFINE r == s \ {Last(s)}
  <2>0. r \in SUBSET (1 .. top)
    OBVIOUS
  <2>1. Last(s) \in 1 .. top /\ Cardinality(r) \in Nat /\ Cardinality(r) < n
    <3>1. /\ Last(s) \in s
          /\ Cardinality(s) \in Nat \ {0}
          /\ Cardinality(r) = Cardinality(s) - 1
      BY <1>7, LastIsIn
    <3>2. Last(s) \in 1 .. top
      BY <3>1
    <3> HIDE DEF r
    <3> QED BY <1>5, <3>1, <3>2
  <2>2. Fits(g[r])
    BY <1>4, <2>0, <2>1
  <2>3. g[s] = Copying!BoundedLine(g[r], lengths[Last(s)])
    BY <1>2, <1>7 DEF TextAt
  <2> HIDE DEF r
  <2>4. Fits(g[s])
    BY <2>1, <2>2, <2>3, LineFits
  <2> QED BY <1>5, <2>4
<1> QED BY <1>6, <1>7

LEMMA ReportsFit ==
  ASSUME NEW lengths \in Copying!Captures
  PROVE  Copying!Rendered(lengths).bytes <= ReportLimit
<1>1. PICK n \in 0 .. MaxLines : lengths \in [1 .. n -> LineBytes]
  BY DEF Copying!Captures
<1>2. /\ DOMAIN lengths = 1 .. n /\ n \in Nat
      /\ \A i \in 1 .. n : lengths[i] \in Nat
  <2>1. n \in Nat /\ LineBytes \subseteq Nat
    BY ReportAssumption
  <2>2. \A i \in 1 .. n : lengths[i] \in LineBytes
    BY <1>1
  <2> QED BY <1>1, <2>1, <2>2
<1> DEFINE text == CHOOSE g : Texts(g, lengths, n)
<1>3. Texts(text, lengths, n)
  BY <1>2, TextsExist
<1>4. Copying!FoldLeft(Copying!BoundedLine, Copying!Empty, lengths) = text[1 .. n]
  BY <1>2 DEF Copying!FoldLeft, Copying!MapThenFoldSet, Texts, TextAt, Last
<1> HIDE DEF text
<1>5. Fits(text[1 .. n])
  BY <1>2, <1>3, TextsFit
<1> QED BY <1>4, <1>5, ReportAssumption DEF Copying!Rendered, Fits

-----------------------------------------------------------------------------
(* The clipboard.                                                          *)

InClipboard == {"Empty", "Allocate", "Fill", "Set", "CloseCopied", "CloseFailed"}

(* While the clipboard is open nobody else writes to it; outside the steps *)
(* that hand it over, the block of memory is not the program's.            *)
CopyInv ==
  /\ onWindows \in BOOLEAN
  /\ copyStage \in {"Idle", "OpenDirectory", "Open", "Clear", "SetString"}
                     \cup InClipboard
  /\ copyStage \in InClipboard <=> opener = "Us"
  /\ copyStage \in {"Open"} \cup InClipboard => onWindows
  /\ memory \in {"None", "Ours", "Clipboard"}
  /\ memory = "Ours" <=> copyStage \in {"Fill", "Set"}
  /\ copyStage = "CloseCopied" => contents = "Report"
  /\ copyStage \in {"Idle", "OpenDirectory"} /\ result = "Copied" /\ ~replaced =>
       contents = "Report"
  /\ report.bytes <= ReportLimit

LEMMA CopyInvariant == Copying!Spec => []CopyInv
<1> USE DEF InClipboard
<1>1. Copying!Init => CopyInv
  BY ReportAssumption DEF Copying!Init, Copying!Empty, CopyInv
<1>2. CopyInv /\ [Copying!Next]_(Copying!vars) => CopyInv'
  <2> SUFFICES ASSUME CopyInv, [Copying!Next]_(Copying!vars) PROVE CopyInv'
    OBVIOUS
  <2> USE DEF CopyInv, Copying!clipboard, Copying!unaffected, Copying!Return
  <2>1. CASE Copying!BeginShutdown
    BY <2>1 DEF Copying!BeginShutdown
  <2>2. CASE Copying!LogFails
    BY <2>2 DEF Copying!LogFails
  <2>3. CASE Copying!Copy
    <3>1. report'.bytes <= ReportLimit
      BY <2>3, ReportsFit DEF Copying!Copy
    <3> QED BY <2>3, <3>1 DEF Copying!Copy
  <2>4. CASE Copying!OpenLogs
    BY <2>4 DEF Copying!OpenLogs
  <2>5. CASE Copying!OpenDirectory
    BY <2>5 DEF Copying!OpenDirectory
  <2>6. CASE Copying!OpenClipboard
    BY <2>6 DEF Copying!OpenClipboard
  <2>7. CASE Copying!EmptyClipboard
    BY <2>7 DEF Copying!EmptyClipboard
  <2>8. CASE Copying!Allocate
    BY <2>8 DEF Copying!Allocate
  <2>9. CASE Copying!Fill
    BY <2>9 DEF Copying!Fill
  <2>10. CASE Copying!SetData
    BY <2>10 DEF Copying!SetData
  <2>11. CASE Copying!Close
    BY <2>11 DEF Copying!Close
  <2>12. CASE Copying!ClearPasteboard
    BY <2>12 DEF Copying!ClearPasteboard
  <2>13. CASE Copying!SetString
    BY <2>13 DEF Copying!SetString
  <2>14. CASE Copying!OtherOpens
    BY <2>14 DEF Copying!OtherOpens
  <2>15. CASE Copying!OtherWrites
    BY <2>15 DEF Copying!OtherWrites
  <2>16. CASE UNCHANGED Copying!vars
    BY <2>16 DEF Copying!vars
  <2> QED
    BY <2>1, <2>2, <2>3, <2>4, <2>5, <2>6, <2>7, <2>8, <2>9, <2>10, <2>11,
       <2>12, <2>13, <2>14, <2>15, <2>16 DEF Copying!Next
<1> QED BY <1>1, <1>2, PTL DEF Copying!Spec

LEMMA CopyGivesBack == CopyInv => Copying!ClipboardIsGivenBack
BY DEF CopyInv, InClipboard, Copying!ClipboardIsGivenBack

-----------------------------------------------------------------------------
(* The tray's menu.                                                        *)

RowNames == Tray!TopLevelNames \cup Tray!ManualNames
            \cup Tray!DetectionNames \cup Tray!SettingsNames

(* A row is a record of five fields, whatever they hold.                   *)
IsRow(row) ==
  row = [text |-> row.text, enabled |-> row.enabled, checked |-> row.checked,
         written |-> row.written, verified |-> row.verified]

(* All that matters of the views that may be sampled.                      *)
IsView(view) == view.session \in {"Inactive", "Finite", "UntilDisabled"}

LEMMA MenuViewsAreViews == \A view \in MenuViews : IsView(view)
BY ViewAssumption DEF IsView

(* An update in place leaves of a row what it does not write.              *)
SameButWritten(old, new) ==
  /\ old.written = new.written /\ old.verified = new.verified
  /\ "text" \notin old.written => old.text = new.text
  /\ "enabled" \notin old.written => old.enabled = new.enabled
  /\ "checked" \notin old.written => old.checked = new.checked

LEMMA PresetsAreNames ==
  /\ Tray!Range(Tray!Thresholds) = {"256 KB/s", "1 MB/s"}
  /\ Tray!Range(Tray!Graces) = {"30 s", "2 min"}
<1>1. ASSUME NEW first, NEW second
      PROVE  Tray!Range(<<first, second>>) = {first, second}
  <2>1. DOMAIN <<first, second>> = {1, 2}
    OBVIOUS
  <2> QED
    BY <2>1 DEF Tray!Range
<1>2. /\ Tray!Range(<<"256 KB/s", "1 MB/s">>) = {"256 KB/s", "1 MB/s"}
      /\ Tray!Range(<<"30 s", "2 min">>) = {"30 s", "2 min"}
  BY <1>1, Zenon
<1> QED
  BY <1>2, Zenon DEF Tray!Thresholds, Tray!Graces

(* Every row has one of the names of its group.                            *)
LEMMA RowsAreNamed ==
  ASSUME NEW view, IsView(view)
  PROVE  Tray!Rows(view) \in Seq(RowNames)
<1> DEFINE Q == Seq(RowNames)
<1>1. \A name \in RowNames : \A texts : Tray!Optional(name, texts) \in Q
  BY DEF Tray!Optional
<1> USE DEF RowNames
<1>2. Tray!TopLevel(view) \in Q
  <2>1. <<"status.primary">> \in Q
    BY DEF Tray!TopLevelNames
  <2>2. <<"automatic", "battery", "detection", "manual", "quit">> \in Q
    BY DEF Tray!TopLevelNames
  <2>3. /\ Tray!Optional("status.detail", view.detail) \in Q
        /\ Tray!Optional("status.warning", view.warning) \in Q
    BY <1>1, Zenon DEF Tray!TopLevelNames
  <2> QED
    BY <2>1, <2>2, <2>3 DEF Tray!TopLevel
<1>3. Tray!Manual(view) \in Q
  <2>1. CASE view.session = "Inactive"
    BY <2>1 DEF Tray!Manual, Tray!ManualNames
  <2>2. CASE view.session = "Finite"
    BY <2>2 DEF Tray!Manual, Tray!ManualNames
  <2>3. CASE view.session = "UntilDisabled"
    BY <2>3 DEF Tray!Manual, Tray!ManualNames
  <2> QED
    BY <2>1, <2>2, <2>3 DEF IsView
<1>4. Tray!Detection(view) \in Q
  <2>1. <<"detection.state">> \in Q /\ <<"detection.power">> \in Q
    BY DEF Tray!DetectionNames
  <2>2. Tray!Optional("detection.rate", view.rate) \in Q
    BY <1>1, Zenon DEF Tray!DetectionNames
  <2>3. ASSUME NEW name \in RowNames, NEW presets \in Q, NEW custom \in RowNames,
               NEW choice
        PROVE  Tray!ChoiceNames(name, presets, custom, choice) \in Q
    <3>1. <<name>> \in Q /\ <<custom>> \in Q /\ <<>> \in Q
      OBVIOUS
    <3>2. (IF choice \in Tray!Range(presets) THEN <<>> ELSE <<custom>>) \in Q
      BY <3>1, Zenon
    <3> QED
      BY <3>1, <3>2 DEF Tray!ChoiceNames
  <2>4. Tray!Thresholds \in Q /\ Tray!Graces \in Q
    <3>1. \A first, second \in RowNames : <<first, second>> \in Q
      OBVIOUS
    <3>2. /\ "256 KB/s" \in RowNames /\ "1 MB/s" \in RowNames
          /\ "30 s" \in RowNames /\ "2 min" \in RowNames
      BY PresetsAreNames DEF Tray!DetectionNames
    <3> QED
      BY <3>1, <3>2, Zenon DEF Tray!Thresholds, Tray!Graces
  <2>5. /\ Tray!ChoiceNames("threshold", Tray!Thresholds, "threshold.custom", view.threshold) \in Q
        /\ Tray!ChoiceNames("grace", Tray!Graces, "grace.custom", view.grace) \in Q
    BY <2>3, <2>4, Zenon DEF Tray!DetectionNames
  <2> QED
    BY <2>1, <2>2, <2>5 DEF Tray!Detection
<1>5. Tray!Settings(view) \in Q
  <2>1. <<"login", "updates", "check">> \in Q
    BY DEF Tray!SettingsNames
  <2>2. <<"copy", "logs">> \in Q
    BY DEF Tray!SettingsNames
  <2>3. /\ Tray!Optional("result", view.result) \in Q
        /\ Tray!Optional("install", view.install) \in Q
    BY <1>1, Zenon DEF Tray!SettingsNames
  <2> QED
    BY <2>1, <2>2, <2>3 DEF Tray!Settings
<1> QED
  BY <1>2, <1>3, <1>4, <1>5 DEF Tray!Rows

(* What the structure of a menu says of the view it was taken from.        *)
LEMMA StructureSays ==
  ASSUME NEW a, NEW b, Tray!MenuStructure(a) = Tray!MenuStructure(b)
  PROVE  /\ Tray!Enabled(a) <=> Tray!Enabled(b)
         /\ Tray!Enabled(a) = Tray!Enabled(b)
         /\ a.session = b.session
         /\ a.detail = <<>> <=> b.detail = <<>>
         /\ a.warning = <<>> <=> b.warning = <<>>
         /\ a.result = <<>> <=> b.result = <<>>
         /\ a.install = <<>> <=> b.install = <<>>
         /\ a.rate = <<>> <=> b.rate = <<>>
         /\ a.threshold \in Tray!Range(Tray!Thresholds)
              <=> b.threshold \in Tray!Range(Tray!Thresholds)
         /\ a.grace \in Tray!Range(Tray!Graces) <=> b.grace \in Tray!Range(Tray!Graces)
<1> DEFINE shape(v) == <<v.detail # <<>>, v.warning # <<>>, v.result # <<>>,
                         v.install # <<>>, v.rate # <<>>>>
           custom(v) == <<v.threshold \in Tray!Range(Tray!Thresholds),
                          v.grace \in Tray!Range(Tray!Graces)>>
<1>1. /\ Tray!Enabled(a) = Tray!Enabled(b) /\ a.session = b.session
      /\ shape(a) = shape(b) /\ custom(a) = custom(b)
  <2>1. \A e, s, k, c, f, t, l, d :
          [enabled |-> e, shape |-> s, session |-> k, custom |-> c]
            = [enabled |-> f, shape |-> t, session |-> l, custom |-> d]
          => e = f /\ s = t /\ k = l /\ c = d
    OBVIOUS
  <2> QED
    BY <2>1, Zenon DEF Tray!MenuStructure
<1>2. \A p, q, r, s, t, u, v, w, x, y :
        <<p, q, r, s, t>> = <<u, v, w, x, y>> => p = u /\ q = v /\ r = w /\ s = x /\ t = y
  OBVIOUS
<1>3. \A p, q, u, v : <<p, q>> = <<u, v>> => p = u /\ q = v
  OBVIOUS
<1>4. /\ (a.detail # <<>>) = (b.detail # <<>>)
      /\ (a.warning # <<>>) = (b.warning # <<>>)
      /\ (a.result # <<>>) = (b.result # <<>>)
      /\ (a.install # <<>>) = (b.install # <<>>)
      /\ (a.rate # <<>>) = (b.rate # <<>>)
  BY <1>1, <1>2, Zenon
<1>5. /\ (a.threshold \in Tray!Range(Tray!Thresholds))
           = (b.threshold \in Tray!Range(Tray!Thresholds))
      /\ (a.grace \in Tray!Range(Tray!Graces)) = (b.grace \in Tray!Range(Tray!Graces))
  BY <1>1, <1>3, Zenon
<1> QED
  BY <1>1, <1>4, <1>5, Zenon

(* ... and they have the same rows, in the same order.                     *)
LEMMA SameStructureSameRows ==
  ASSUME NEW a, NEW b, Tray!MenuStructure(a) = Tray!MenuStructure(b)
  PROVE  Tray!Rows(a) = Tray!Rows(b)
<1>1. \A name, s, t : (s = <<>> <=> t = <<>>) => Tray!Optional(name, s) = Tray!Optional(name, t)
  BY Zenon DEF Tray!Optional
<1>6. /\ a.detail = <<>> <=> b.detail = <<>>
      /\ a.warning = <<>> <=> b.warning = <<>>
      /\ a.result = <<>> <=> b.result = <<>>
      /\ a.install = <<>> <=> b.install = <<>>
      /\ a.rate = <<>> <=> b.rate = <<>>
  BY StructureSays, Zenon
<1>7. /\ Tray!Optional("status.detail", a.detail) = Tray!Optional("status.detail", b.detail)
      /\ Tray!Optional("status.warning", a.warning) = Tray!Optional("status.warning", b.warning)
      /\ Tray!Optional("result", a.result) = Tray!Optional("result", b.result)
      /\ Tray!Optional("install", a.install) = Tray!Optional("install", b.install)
      /\ Tray!Optional("detection.rate", a.rate) = Tray!Optional("detection.rate", b.rate)
  BY <1>1, <1>6, Zenon
<1>2. Tray!TopLevel(a) = Tray!TopLevel(b)
  BY <1>7, Zenon DEF Tray!TopLevel
<1>3. Tray!Manual(a) = Tray!Manual(b)
  BY StructureSays, Zenon DEF Tray!Manual
<1>4. Tray!Detection(a) = Tray!Detection(b)
  <2>1. \A name, presets, custom, s, t :
          (s \in Tray!Range(presets) <=> t \in Tray!Range(presets)) =>
            Tray!ChoiceNames(name, presets, custom, s) = Tray!ChoiceNames(name, presets, custom, t)
    BY Zenon DEF Tray!ChoiceNames
  <2>4. /\ a.threshold \in Tray!Range(Tray!Thresholds)
             <=> b.threshold \in Tray!Range(Tray!Thresholds)
        /\ a.grace \in Tray!Range(Tray!Graces) <=> b.grace \in Tray!Range(Tray!Graces)
    BY StructureSays, Zenon
  <2>2. Tray!ChoiceNames("threshold", Tray!Thresholds, "threshold.custom", a.threshold)
          = Tray!ChoiceNames("threshold", Tray!Thresholds, "threshold.custom", b.threshold)
    BY <2>1, <2>4, Zenon
  <2>3. Tray!ChoiceNames("grace", Tray!Graces, "grace.custom", a.grace)
          = Tray!ChoiceNames("grace", Tray!Graces, "grace.custom", b.grace)
    BY <2>1, <2>4, Zenon
  <2> QED
    BY <1>7, <2>2, <2>3, Zenon DEF Tray!Detection
<1>5. Tray!Settings(a) = Tray!Settings(b)
  BY <1>7, Zenon DEF Tray!Settings
<1> QED
  BY <1>2, <1>3, <1>4, <1>5, Zenon DEF Tray!Rows

(* The groups of the menu share no name.                                   *)
LEMMA EachRowHasItsGroup ==
  \A view, name :
    /\ name \in Tray!TopLevelNames => Tray!RowNamed(view, name) = Tray!TopLevelRow(view, name)
    /\ name \in Tray!ManualNames => Tray!RowNamed(view, name) = Tray!ManualRow(view, name)
    /\ name \in Tray!DetectionNames => Tray!RowNamed(view, name) = Tray!DetectionRow(view, name)
    /\ name \in Tray!SettingsNames => Tray!RowNamed(view, name) = Tray!SettingsRow(view, name)
<1>1. /\ Tray!TopLevelNames \cap Tray!ManualNames = {}
      /\ Tray!TopLevelNames \cap Tray!DetectionNames = {}
      /\ Tray!TopLevelNames \cap Tray!SettingsNames = {}
      /\ Tray!ManualNames \cap Tray!DetectionNames = {}
      /\ Tray!ManualNames \cap Tray!SettingsNames = {}
      /\ Tray!DetectionNames \cap Tray!SettingsNames = {}
  BY PresetsAreNames
     DEF Tray!TopLevelNames, Tray!ManualNames, Tray!DetectionNames,
     Tray!SettingsNames
<1> QED
  BY <1>1 DEF Tray!RowNamed

(* What can be clicked on is enabled with the whole menu.                  *)
RowsFit(view, old, new) ==
  /\ IsRow(old)
  /\ SameButWritten(old, new)
  /\ "checked" \in old.written /\ old.enabled => Tray!Enabled(view)

(* Rows of views with one structure only differ in what an update writes.  *)
LEMMA SameStructureSameButWritten ==
  ASSUME NEW a, NEW b, Tray!MenuStructure(a) = Tray!MenuStructure(b),
         NEW name \in RowNames
  PROVE  RowsFit(a, Tray!RowNamed(a, name), Tray!RowNamed(b, name))
<1> USE DEF SameButWritten, IsRow
<1>1. Tray!Enabled(a) = Tray!Enabled(b)
  BY StructureSays, Zenon
<1>2. CASE name \in Tray!TopLevelNames
  <2>1. RowsFit(a, Tray!TopLevelRow(a, name), Tray!TopLevelRow(b, name))
    <3>1. CASE name = "status.primary"
      <4> DEFINE row(view) == Tray!Status(view.primary)
      <4>1. /\ Tray!TopLevelRow(a, name) = row(a)
            /\ Tray!TopLevelRow(b, name) = row(b)
        BY <3>1 DEF Tray!TopLevelRow
      <4> QED
        BY <1>1, <4>1 DEF RowsFit, Tray!Row, Tray!Status
    <3>2. CASE name = "status.detail"
      <4> DEFINE row(view) == Tray!Status(view.detail[1])
      <4>1. /\ Tray!TopLevelRow(a, name) = row(a)
            /\ Tray!TopLevelRow(b, name) = row(b)
        BY <3>2 DEF Tray!TopLevelRow
      <4> QED
        BY <1>1, <4>1 DEF RowsFit, Tray!Row, Tray!Status
    <3>3. CASE name = "status.warning"
      <4> DEFINE row(view) == Tray!Status(view.warning[1])
      <4>1. /\ Tray!TopLevelRow(a, name) = row(a)
            /\ Tray!TopLevelRow(b, name) = row(b)
        BY <3>3 DEF Tray!TopLevelRow
      <4> QED
        BY <1>1, <4>1 DEF RowsFit, Tray!Row, Tray!Status
    <3>4. CASE name = "automatic"
      <4> DEFINE row(view) == Tray!Row("automatic", Tray!Enabled(view), view.automatic,
                                    {"text", "enabled", "checked"}, {"enabled", "checked"})
      <4>1. /\ Tray!TopLevelRow(a, name) = row(a)
            /\ Tray!TopLevelRow(b, name) = row(b)
        BY <3>4 DEF Tray!TopLevelRow
      <4> QED
        BY <1>1, <4>1 DEF RowsFit, Tray!Row, Tray!Status
    <3>5. CASE name = "battery"
      <4> DEFINE row(view) == Tray!Row("battery", Tray!Enabled(view), view.battery,
                                    {"text", "enabled", "checked"}, {"enabled", "checked"})
      <4>1. /\ Tray!TopLevelRow(a, name) = row(a)
            /\ Tray!TopLevelRow(b, name) = row(b)
        BY <3>5 DEF Tray!TopLevelRow
      <4> QED
        BY <1>1, <4>1 DEF RowsFit, Tray!Row, Tray!Status
    <3>6. CASE name = "detection"
      <4> DEFINE row(view) == Tray!Row("detection", TRUE, FALSE,
                                    {"text", "enabled"}, {})
      <4>1. /\ Tray!TopLevelRow(a, name) = row(a)
            /\ Tray!TopLevelRow(b, name) = row(b)
        BY <3>6 DEF Tray!TopLevelRow
      <4> QED
        BY <1>1, <4>1 DEF RowsFit, Tray!Row, Tray!Status
    <3>7. CASE name = "manual"
      <4> DEFINE row(view) == Tray!Row("manual", Tray!Enabled(view), FALSE,
                                    {"text", "enabled"}, {"enabled"})
      <4>1. /\ Tray!TopLevelRow(a, name) = row(a)
            /\ Tray!TopLevelRow(b, name) = row(b)
        BY <3>7 DEF Tray!TopLevelRow
      <4> QED
        BY <1>1, <4>1 DEF RowsFit, Tray!Row, Tray!Status
    <3>8. CASE name = "quit"
      <4> DEFINE row(view) == Tray!Row("quit", TRUE, FALSE,
                                    {"text", "enabled"}, {"enabled"})
      <4>1. /\ Tray!TopLevelRow(a, name) = row(a)
            /\ Tray!TopLevelRow(b, name) = row(b)
        BY <3>8 DEF Tray!TopLevelRow
      <4> QED
        BY <1>1, <4>1 DEF RowsFit, Tray!Row, Tray!Status
    <3> QED
      BY <1>2, <3>1, <3>2, <3>3, <3>4, <3>5, <3>6, <3>7, <3>8
         DEF Tray!TopLevelNames
  <2> QED
    BY <2>1, <1>2, EachRowHasItsGroup, Zenon
<1>3. CASE name \in Tray!DetectionNames
  <2>1. RowsFit(a, Tray!DetectionRow(a, name), Tray!DetectionRow(b, name))
    <3>1. CASE name = "detection.state"
      <4> DEFINE row(view) == Tray!Status(view.state)
      <4>1. /\ Tray!DetectionRow(a, name) = row(a)
            /\ Tray!DetectionRow(b, name) = row(b)
        BY <3>1, PresetsAreNames DEF Tray!DetectionRow
      <4> QED
        BY <1>1, <4>1 DEF RowsFit, Tray!Row, Tray!Status
    <3>2. CASE name = "detection.rate"
      <4> DEFINE row(view) == Tray!Status(view.rate[1])
      <4>1. /\ Tray!DetectionRow(a, name) = row(a)
            /\ Tray!DetectionRow(b, name) = row(b)
        BY <3>2, PresetsAreNames DEF Tray!DetectionRow
      <4> QED
        BY <1>1, <4>1 DEF RowsFit, Tray!Row, Tray!Status
    <3>3. CASE name = "detection.power"
      <4> DEFINE row(view) == Tray!Status(view.power)
      <4>1. /\ Tray!DetectionRow(a, name) = row(a)
            /\ Tray!DetectionRow(b, name) = row(b)
        BY <3>3, PresetsAreNames DEF Tray!DetectionRow
      <4> QED
        BY <1>1, <4>1 DEF RowsFit, Tray!Row, Tray!Status
    <3>4. CASE name = "threshold"
      <4> DEFINE row(view) == Tray!Row("threshold", Tray!Enabled(view), FALSE,
                                    {"enabled"}, {"enabled"})
      <4>1. /\ Tray!DetectionRow(a, name) = row(a)
            /\ Tray!DetectionRow(b, name) = row(b)
        BY <3>4, PresetsAreNames DEF Tray!DetectionRow
      <4> QED
        BY <1>1, <4>1 DEF RowsFit, Tray!Row, Tray!Status
    <3>5. CASE name = "grace"
      <4> DEFINE row(view) == Tray!Row("grace", Tray!Enabled(view), FALSE,
                                    {"enabled"}, {"enabled"})
      <4>1. /\ Tray!DetectionRow(a, name) = row(a)
            /\ Tray!DetectionRow(b, name) = row(b)
        BY <3>5, PresetsAreNames DEF Tray!DetectionRow
      <4> QED
        BY <1>1, <4>1 DEF RowsFit, Tray!Row, Tray!Status
    <3>6. CASE name = "threshold.custom"
      <4> DEFINE row(view) == Tray!Row(view.threshold, FALSE, TRUE,
                                    {"text", "checked"}, {})
      <4>1. /\ Tray!DetectionRow(a, name) = row(a)
            /\ Tray!DetectionRow(b, name) = row(b)
        BY <3>6, PresetsAreNames DEF Tray!DetectionRow
      <4> QED
        BY <1>1, <4>1 DEF RowsFit, Tray!Row, Tray!Status
    <3>7. CASE name = "grace.custom"
      <4> DEFINE row(view) == Tray!Row(view.grace, FALSE, TRUE,
                                    {"text", "checked"}, {})
      <4>1. /\ Tray!DetectionRow(a, name) = row(a)
            /\ Tray!DetectionRow(b, name) = row(b)
        BY <3>7, PresetsAreNames DEF Tray!DetectionRow
      <4> QED
        BY <1>1, <4>1 DEF RowsFit, Tray!Row, Tray!Status
    <3>8. CASE name = "256 KB/s"
      <4> DEFINE row(view) == Tray!Row(name, Tray!Enabled(view), name = view.threshold,
                                    {"checked"}, {"enabled"})
      <4>1. /\ Tray!DetectionRow(a, name) = row(a)
            /\ Tray!DetectionRow(b, name) = row(b)
        BY <3>8, PresetsAreNames DEF Tray!DetectionRow
      <4> QED
        BY <1>1, <4>1 DEF RowsFit, Tray!Row, Tray!Status
    <3>9. CASE name = "1 MB/s"
      <4> DEFINE row(view) == Tray!Row(name, Tray!Enabled(view), name = view.threshold,
                                    {"checked"}, {"enabled"})
      <4>1. /\ Tray!DetectionRow(a, name) = row(a)
            /\ Tray!DetectionRow(b, name) = row(b)
        BY <3>9, PresetsAreNames DEF Tray!DetectionRow
      <4> QED
        BY <1>1, <4>1 DEF RowsFit, Tray!Row, Tray!Status
    <3>10. CASE name = "30 s"
      <4> DEFINE row(view) == Tray!Row(name, Tray!Enabled(view), name = view.grace,
                                    {"checked"}, {"enabled"})
      <4>1. /\ Tray!DetectionRow(a, name) = row(a)
            /\ Tray!DetectionRow(b, name) = row(b)
        BY <3>10, PresetsAreNames DEF Tray!DetectionRow
      <4> QED
        BY <1>1, <4>1 DEF RowsFit, Tray!Row, Tray!Status
    <3>11. CASE name = "2 min"
      <4> DEFINE row(view) == Tray!Row(name, Tray!Enabled(view), name = view.grace,
                                    {"checked"}, {"enabled"})
      <4>1. /\ Tray!DetectionRow(a, name) = row(a)
            /\ Tray!DetectionRow(b, name) = row(b)
        BY <3>11, PresetsAreNames DEF Tray!DetectionRow
      <4> QED
        BY <1>1, <4>1 DEF RowsFit, Tray!Row, Tray!Status
    <3> QED
      BY <1>3, <3>1, <3>2, <3>3, <3>4, <3>5, <3>6, <3>7, <3>8, <3>9, <3>10,
         <3>11, PresetsAreNames
         DEF Tray!DetectionNames
  <2> QED
    BY <2>1, <1>3, EachRowHasItsGroup, Zenon
<1>4. CASE name \in Tray!SettingsNames
  <2>1. RowsFit(a, Tray!SettingsRow(a, name), Tray!SettingsRow(b, name))
    <3>1. CASE name = "login"
      <4> DEFINE row(view) == Tray!Row("login", Tray!Enabled(view), view.login,
                                    {"text", "enabled", "checked"}, {"text", "enabled", "checked"})
      <4>1. /\ Tray!SettingsRow(a, name) = row(a)
            /\ Tray!SettingsRow(b, name) = row(b)
        BY <3>1 DEF Tray!SettingsRow
      <4> QED
        BY <1>1, <4>1 DEF RowsFit, Tray!Row, Tray!Status
    <3>2. CASE name = "updates"
      <4> DEFINE row(view) == Tray!Row("updates", Tray!Enabled(view), view.updates,
                                    {"text", "enabled", "checked"}, {"text", "enabled", "checked"})
      <4>1. /\ Tray!SettingsRow(a, name) = row(a)
            /\ Tray!SettingsRow(b, name) = row(b)
        BY <3>2 DEF Tray!SettingsRow
      <4> QED
        BY <1>1, <4>1 DEF RowsFit, Tray!Row, Tray!Status
    <3>3. CASE name = "check"
      <4> DEFINE row(view) == Tray!Row("check", view.checkEnabled, FALSE,
                                    {"text", "enabled"}, {"text", "enabled"})
      <4>1. /\ Tray!SettingsRow(a, name) = row(a)
            /\ Tray!SettingsRow(b, name) = row(b)
        BY <3>3 DEF Tray!SettingsRow
      <4> QED
        BY <1>1, <4>1 DEF RowsFit, Tray!Row, Tray!Status
    <3>4. CASE name = "result"
      <4> DEFINE row(view) == Tray!Row(view.result[1], FALSE, FALSE,
                                    {"text"}, {"text", "enabled"})
      <4>1. /\ Tray!SettingsRow(a, name) = row(a)
            /\ Tray!SettingsRow(b, name) = row(b)
        BY <3>4 DEF Tray!SettingsRow
      <4> QED
        BY <1>1, <4>1 DEF RowsFit, Tray!Row, Tray!Status
    <3>5. CASE name = "install"
      <4> DEFINE row(view) == Tray!Row(view.install[1], Tray!Enabled(view), FALSE,
                                    {"text", "enabled"}, {"text", "enabled"})
      <4>1. /\ Tray!SettingsRow(a, name) = row(a)
            /\ Tray!SettingsRow(b, name) = row(b)
        BY <3>5 DEF Tray!SettingsRow
      <4> QED
        BY <1>1, <4>1 DEF RowsFit, Tray!Row, Tray!Status
    <3>6. CASE name = "copy"
      <4> DEFINE row(view) == Tray!Row("copy", TRUE, FALSE,
                                    {"text", "enabled"}, {"text", "enabled"})
      <4>1. /\ Tray!SettingsRow(a, name) = row(a)
            /\ Tray!SettingsRow(b, name) = row(b)
        BY <3>6 DEF Tray!SettingsRow
      <4> QED
        BY <1>1, <4>1 DEF RowsFit, Tray!Row, Tray!Status
    <3>7. CASE name = "logs"
      <4> DEFINE row(view) == Tray!Row("logs", view.logs, FALSE,
                                    {"text", "enabled"}, {"text", "enabled"})
      <4>1. /\ Tray!SettingsRow(a, name) = row(a)
            /\ Tray!SettingsRow(b, name) = row(b)
        BY <3>7 DEF Tray!SettingsRow
      <4> QED
        BY <1>1, <4>1 DEF RowsFit, Tray!Row, Tray!Status
    <3> QED
      BY <1>4, <3>1, <3>2, <3>3, <3>4, <3>5, <3>6, <3>7
         DEF Tray!SettingsNames
  <2> QED
    BY <2>1, <1>4, EachRowHasItsGroup, Zenon
<1>5. CASE name \in Tray!ManualNames
  <2>1. a.session = b.session
    BY StructureSays, Zenon
  <2>2. RowsFit(a, Tray!ManualRow(a, name), Tray!ManualRow(b, name))
    <3>1. CASE name # "manual.remaining"
      <4> DEFINE row(view) == Tray!Row(name, Tray!Enabled(view), FALSE, {}, {"enabled"})
      <4>1. /\ Tray!ManualRow(a, name) = row(a)
            /\ Tray!ManualRow(b, name) = row(b)
        BY <3>1 DEF Tray!ManualRow
      <4> QED
        BY <1>1, <4>1 DEF RowsFit, Tray!Row
    <3>2. CASE name = "manual.remaining" /\ a.session = "Finite"
      <4>1. /\ Tray!ManualRow(a, name) = Tray!Status(a.remaining)
            /\ Tray!ManualRow(b, name) = Tray!Status(b.remaining)
        BY <3>2, <2>1 DEF Tray!ManualRow
      <4> QED
        BY <1>1, <4>1 DEF RowsFit, Tray!Row, Tray!Status
    <3>3. CASE name = "manual.remaining" /\ a.session # "Finite"
      <4> DEFINE row == Tray!Row("Active until disabled", FALSE, FALSE, {}, {})
      <4>1. Tray!ManualRow(a, name) = row /\ Tray!ManualRow(b, name) = row
        BY <3>3, <2>1 DEF Tray!ManualRow
      <4>2. RowsFit(a, row, row)
        BY DEF RowsFit, Tray!Row
      <4> QED
        BY <4>1, <4>2, Zenon
    <3> QED
      BY <3>1, <3>2, <3>3
  <2> QED
    BY <2>2, <1>5, EachRowHasItsGroup, Zenon
<1> QED
  BY <1>2, <1>3, <1>4, <1>5 DEF RowNames

-----------------------------------------------------------------------------
(* What holds of the menu at every moment.                                 *)

MenuTypes ==
  /\ phase \in {"Starting", "Running", "Ended"}
  /\ worker \in {"Waiting", "Updating", "Building"}
  /\ renderedFor \in MenuViews /\ target \in MenuViews
  /\ lastView \subseteq {renderedFor}
  /\ position \in Nat \ {0}
  /\ refreshPending \in BOOLEAN /\ clicked \in BOOLEAN

(* Only a view of a running application has rows that can be used.         *)
Began ==
  /\ Tray!Enabled(renderedFor) => phase # "Starting"
  /\ Tray!Enabled(target) => phase # "Starting"

InPlace ==
  worker = "Updating" => Tray!MenuStructure(renderedFor) = Tray!MenuStructure(target)

(* Whatever was written and whatever failed, the rows are those of the view*)
(* that was rendered last, in what no update writes.                       *)
RowsAreOf(rows, view) ==
  /\ rows = [name \in DOMAIN rows |-> rows[name]]
  /\ DOMAIN rows = DOMAIN Tray!Built(view)
  /\ \A name \in DOMAIN rows : RowsFit(view, rows[name], Tray!RowNamed(view, name))

RowsKept == RowsAreOf(menu, renderedFor)

(* A click, or the end of the application, will have the menu rendered.    *)
Excused(view) ==
  \/ refreshPending
  \/ Tray!Enabled(view) /\ (clicked \/ phase = "Ended")

ViewIsShown ==
  worker = "Waiting" => \A view \in lastView : menu = Tray!Built(view) \/ Excused(view)

WrittenSoFar ==
  worker = "Updating" =>
    \/ \A i \in 1 .. position - 1 :
         LET name == Tray!Rows(target)[i]
         IN  menu[name] = Tray!RowNamed(target, name)
    \/ Excused(target)

MenuInv == MenuTypes /\ Began /\ InPlace /\ RowsKept /\ ViewIsShown /\ WrittenSoFar

LEMMA BuiltRows ==
  ASSUME NEW view
  PROVE  /\ DOMAIN Tray!Built(view) = Tray!Range(Tray!Rows(view))
         /\ \A name \in DOMAIN Tray!Built(view) :
              Tray!Built(view)[name] = Tray!RowNamed(view, name)
         /\ Tray!Built(view) = [name \in DOMAIN Tray!Built(view) |-> Tray!Built(view)[name]]
BY DEF Tray!Built

LEMMA BuiltNames ==
  ASSUME NEW view, IsView(view)
  PROVE  DOMAIN Tray!Built(view) \subseteq RowNames
<1>1. \A rows \in Seq(RowNames) : Tray!Range(rows) \subseteq RowNames
  BY DEF Tray!Range
<1> QED
  BY <1>1, RowsAreNamed, BuiltRows, Zenon

LEMMA BuiltFits ==
  ASSUME NEW view, IsView(view), NEW name \in DOMAIN Tray!Built(view)
  PROVE  RowsFit(view, Tray!Built(view)[name], Tray!RowNamed(view, name))
BY SameStructureSameButWritten, BuiltNames, BuiltRows, Zenon

LEMMA BuiltKept == \A view : IsView(view) => RowsAreOf(Tray!Built(view), view)
BY BuiltFits, BuiltRows, Zenon DEF RowsAreOf

(* Writing a row's written fields makes it the row it is written from; any *)
(* of them leave what is kept.                                             *)
LEMMA WritingARow ==
  ASSUME NEW a, NEW old, NEW new, NEW row, NEW fields,
         RowsFit(a, old, row), RowsFit(a, row, new), RowsFit(a, new, new),
         fields \subseteq new.written
  PROVE  /\ RowsFit(a, Tray!Written(old, new, fields), row)
         /\ Tray!Written(old, new, new.written) = new
<1> USE DEF RowsFit, SameButWritten, IsRow
<1>1. old.written = new.written /\ old.verified = new.verified
  OBVIOUS
<1> QED
  BY <1>1 DEF Tray!Written

(* The row that an update in place comes to.                               *)
LEMMA UpdatedRow ==
  ASSUME MenuInv, worker = "Updating", position <= Tray!Len(Tray!Rows(target)),
         NEW fields
  PROVE  LET name == Tray!Rows(target)[position]
             new == Tray!RowNamed(target, name)
         IN  /\ name \in DOMAIN menu
             /\ fields \subseteq new.written =>
                  RowsFit(renderedFor, Tray!Written(menu[name], new, fields),
                          Tray!RowNamed(renderedFor, name))
             /\ Tray!Written(menu[name], new, new.written) = new
<1> DEFINE name == Tray!Rows(target)[position]
           row == Tray!RowNamed(renderedFor, name)
           new == Tray!RowNamed(target, name)
<1>1. Tray!MenuStructure(renderedFor) = Tray!MenuStructure(target)
  BY DEF MenuInv, InPlace
<1>2. IsView(renderedFor) /\ IsView(target)
  BY MenuViewsAreViews DEF MenuInv, MenuTypes
<1>3. name \in DOMAIN menu /\ name \in RowNames
  <2>1. position \in DOMAIN Tray!Rows(target)
    BY <1>2, RowsAreNamed DEF MenuInv, MenuTypes
  <2>2. name \in DOMAIN Tray!Built(target)
    BY <2>1, BuiltRows DEF Tray!Range
  <2>3. DOMAIN Tray!Built(target) = DOMAIN menu
    BY <1>1, SameStructureSameRows, BuiltRows DEF MenuInv, RowsKept, RowsAreOf
  <2> QED
    BY <1>2, <2>2, <2>3, BuiltNames
<1>4. RowsFit(renderedFor, menu[name], row)
  BY <1>3 DEF MenuInv, RowsKept, RowsAreOf
<1>5. RowsFit(renderedFor, row, new)
  BY <1>1, <1>3, SameStructureSameButWritten, Zenon
<1>6. RowsFit(renderedFor, new, new)
  <2>1. RowsFit(target, new, new)
    BY <1>3, SameStructureSameButWritten, Zenon
  <2>2. Tray!Enabled(renderedFor) = Tray!Enabled(target)
    BY <1>1, StructureSays, Zenon
  <2> QED
    BY <2>1, <2>2 DEF RowsFit
<1> HIDE DEF name, row, new
<1>7. /\ fields \subseteq new.written =>
           RowsFit(renderedFor, Tray!Written(menu[name], new, fields), row)
      /\ Tray!Written(menu[name], new, new.written) = new
  BY <1>4, <1>5, <1>6, WritingARow
<1> QED
  BY <1>3, <1>7 DEF name, row, new

LEMMA MenuInvariant == Tray!Spec => []MenuInv
<1>1. Tray!Init => MenuInv
  <2> SUFFICES ASSUME Tray!Init PROVE MenuInv
    OBVIOUS
  <2>1. /\ target \in MenuViews /\ target.phase = "Starting" /\ renderedFor = target
        /\ menu = Tray!Built(target) /\ phase = "Starting" /\ lastView = {target}
        /\ worker = "Waiting" /\ position = 1
        /\ refreshPending = FALSE /\ clicked = FALSE
    BY DEF Tray!Init
  <2>2. MenuTypes /\ InPlace /\ ViewIsShown /\ WrittenSoFar
    <3>1. MenuTypes
      <4>1. 1 \in Nat \ {0}
        OBVIOUS
      <4> QED
        BY <2>1, <4>1, Zenon DEF MenuTypes
    <3>2. InPlace /\ WrittenSoFar
      BY <2>1 DEF InPlace, WrittenSoFar
    <3>3. ViewIsShown
      BY <2>1 DEF ViewIsShown
    <3> QED
      BY <3>1, <3>2, <3>3
  <2>3. Began
    BY <2>1 DEF Began, Tray!Enabled
  <2>4. RowsKept
    BY <2>1, BuiltKept, MenuViewsAreViews, Zenon DEF RowsKept
  <2> QED
    BY <2>2, <2>3, <2>4 DEF MenuInv
<1>2. MenuInv /\ [Tray!Next]_(Tray!vars) => MenuInv'
  <2> SUFFICES ASSUME MenuInv, [Tray!Next]_(Tray!vars) PROVE MenuInv'
    OBVIOUS
  <2> USE DEF MenuInv
  <2>1. CASE Tray!StatusChanges
    <3> USE <2>1 DEF Tray!StatusChanges
    <3>1. MenuTypes' /\ Began' /\ InPlace' /\ RowsKept'
      BY DEF MenuTypes, Began, InPlace, RowsKept, RowsAreOf
    <3>2. ViewIsShown' /\ WrittenSoFar'
      BY DEF MenuTypes, Began, ViewIsShown, WrittenSoFar, Excused
    <3> QED
      BY <3>1, <3>2
  <2>2. CASE Tray!Click
    <3> USE <2>2 DEF Tray!Click
    <3>1. MenuTypes' /\ Began' /\ InPlace'
      BY DEF MenuTypes, Began, InPlace
    <3>2. PICK name \in DOMAIN menu :
            /\ menu[name].enabled
            /\ "checked" \in menu[name].written
            /\ menu' = [menu EXCEPT ![name].checked = ~@]
      OBVIOUS
    <3>3. Tray!Enabled(renderedFor)
      BY <3>2 DEF RowsKept, RowsAreOf, RowsFit
    <3>4. RowsKept'
      <4>1. /\ DOMAIN menu' = DOMAIN menu
            /\ \A other \in DOMAIN menu : other # name => menu'[other] = menu[other]
            /\ menu'[name] = [menu[name] EXCEPT !.checked = ~menu[name].checked]
        BY <3>2
      <4>2. RowsFit(renderedFor, menu'[name], Tray!RowNamed(renderedFor, name))
        BY <3>2, <3>3, <4>1
           DEF RowsKept, RowsAreOf, RowsFit, SameButWritten, IsRow
      <4> QED
        BY <4>1, <4>2 DEF RowsKept, RowsAreOf
    <3>5. ViewIsShown'
      BY <3>3 DEF MenuTypes, ViewIsShown, Excused
    <3>6. WrittenSoFar'
      <4>1. worker = "Updating" => Tray!Enabled(target)
        BY <3>3, StructureSays, Zenon DEF InPlace
      <4> QED
        BY <4>1 DEF WrittenSoFar, Excused
    <3> QED
      BY <3>1, <3>4, <3>5, <3>6
  <2>3. CASE Tray!HandleClick
    <3> USE <2>3 DEF Tray!HandleClick
    <3>1. MenuTypes' /\ Began' /\ InPlace' /\ RowsKept'
      BY DEF MenuTypes, Began, InPlace, RowsKept, RowsAreOf
    <3>2. \A view : Excused(view) /\ (Tray!Enabled(view) => phase # "Starting") => Excused(view)'
      BY DEF MenuTypes, Excused
    <3>3. ViewIsShown' /\ WrittenSoFar'
      BY <3>2 DEF MenuTypes, Began, ViewIsShown, WrittenSoFar
    <3> QED
      BY <3>1, <3>3
  <2>4. CASE Tray!Sample
    <3> USE <2>4 DEF Tray!Sample
    <3>0. target' \in MenuViews /\ target'.phase = phase
      OBVIOUS
    <3>1. MenuTypes'
      <4>1. 1 \in Nat \ {0}
        OBVIOUS
      <4>2. worker' \in {"Waiting", "Updating", "Building"}
        OBVIOUS
      <4> QED
        BY <3>0, <4>1, <4>2, Zenon DEF MenuTypes
    <3>4. Began'
      BY <3>0 DEF Began, Tray!Enabled
    <3>5. InPlace'
      BY DEF InPlace
    <3>6. RowsKept'
      BY DEF RowsKept, RowsAreOf
    <3>2. ViewIsShown'
      BY DEF MenuTypes, ViewIsShown, Excused
    <3>3. WrittenSoFar'
      BY DEF WrittenSoFar
    <3> QED
      BY <3>1, <3>2, <3>3, <3>4, <3>5, <3>6
  <2>5. CASE Tray!Build
    <3> USE <2>5 DEF Tray!Build, Tray!Rendered, Tray!RenderFails
    <3>1. MenuTypes' /\ Began' /\ InPlace' /\ WrittenSoFar'
      BY DEF MenuTypes, Began, InPlace, WrittenSoFar
    <3>2. RowsKept'
      <4>1. CASE menu' = Tray!Built(target) /\ renderedFor' = target
        BY <4>1, BuiltKept, MenuViewsAreViews DEF MenuTypes, RowsKept, RowsAreOf
      <4>2. CASE UNCHANGED <<menu, renderedFor>>
        BY <4>2 DEF RowsKept, RowsAreOf
      <4> QED
        BY <4>1, <4>2
    <3>3. ViewIsShown'
      BY DEF ViewIsShown
    <3> QED
      BY <3>1, <3>2, <3>3
  <2>6. CASE Tray!UpdateRow
    <3> DEFINE name == Tray!Rows(target)[position]
               new == Tray!RowNamed(target, name)
    <3>1. /\ worker = "Updating" /\ position <= Tray!Len(Tray!Rows(target))
          /\ menu' = IF name \in DOMAIN menu
                     THEN [menu EXCEPT ![name] = Tray!Written(menu[name], new, new.written)]
                     ELSE menu
          /\ position' = position + 1
          /\ UNCHANGED <<phase, renderedFor, lastView, worker, target,
                         refreshPending, clicked, mishaps>>
      BY <2>6, Zenon DEF Tray!UpdateRow
    <3>2. /\ name \in DOMAIN menu
          /\ RowsFit(renderedFor, Tray!Written(menu[name], new, new.written),
                     Tray!RowNamed(renderedFor, name))
          /\ Tray!Written(menu[name], new, new.written) = new
      BY <3>1, UpdatedRow
    <3>3. /\ DOMAIN menu' = DOMAIN menu
          /\ \A other \in DOMAIN menu : other # name => menu'[other] = menu[other]
          /\ menu'[name] = new
      BY <3>1, <3>2
    <3>4. MenuTypes' /\ Began' /\ InPlace' /\ ViewIsShown'
      BY <3>1 DEF MenuTypes, Began, InPlace, ViewIsShown
    <3>5. RowsKept'
      BY <3>1, <3>2, <3>3 DEF RowsKept, RowsAreOf
    <3>6. WrittenSoFar'
      <4>1. CASE Excused(target)
        BY <3>1, <4>1 DEF WrittenSoFar, Excused
      <4>2. CASE ~Excused(target)
        <5> DEFINE rows == Tray!Rows(target)
        <5>1. \A i \in 1 .. position - 1 : menu[rows[i]] = Tray!RowNamed(target, rows[i])
          BY <3>1, <4>2, Zenon DEF WrittenSoFar
        <5>2. \A i \in 1 .. position - 1 : rows[i] \in DOMAIN menu
          <6>1. IsView(target) /\ Tray!Rows(renderedFor) = Tray!Rows(target)
            BY <3>1, MenuViewsAreViews, SameStructureSameRows
               DEF MenuTypes, InPlace
          <6>2. rows \in Seq(RowNames)
            BY <6>1, RowsAreNamed
          <6>3. \A i \in 1 .. position - 1 : i \in DOMAIN rows
            BY <3>1, <6>2 DEF MenuTypes
          <6>4. DOMAIN menu = Tray!Range(rows)
            BY <6>1, BuiltRows DEF RowsKept, RowsAreOf
          <6> QED
            BY <6>3, <6>4 DEF Tray!Range
        <5>3. \A i \in 1 .. position :
                menu'[rows[i]] = Tray!RowNamed(target, rows[i])
          <6>1. position \in Nat
            BY DEF MenuTypes
          <6>2. \A i \in 1 .. position : i \in 1 .. position - 1 \/ i = position
            BY <6>1
          <6> QED
            BY <3>3, <5>1, <5>2, <6>2
        <5>4. position' - 1 = position /\ target' = target
          BY <3>1 DEF MenuTypes
        <5> QED
          BY <5>3, <5>4 DEF WrittenSoFar
      <4> QED
        BY <4>1, <4>2
    <3> QED
      BY <3>4, <3>5, <3>6
  <2>7. CASE Tray!UpdateFails
    <3> DEFINE name == Tray!Rows(target)[position]
               new == Tray!RowNamed(target, name)
    <3>1. /\ worker = "Updating" /\ position <= Tray!Len(Tray!Rows(target))
          /\ \/ \E done \in {{}, {"text"}, {"text", "enabled"}} :
                  menu' = [menu EXCEPT ![name] =
                             Tray!Written(menu[name], new, new.written \cap done)]
             \/ menu' = menu
          /\ worker' = "Waiting" /\ lastView' = {}
          /\ UNCHANGED <<phase, renderedFor, target, position, refreshPending, clicked>>
      BY <2>7, Zenon DEF Tray!UpdateFails, Tray!RenderFails
    <3>2. MenuTypes' /\ Began' /\ InPlace' /\ ViewIsShown' /\ WrittenSoFar'
      BY <3>1 DEF MenuTypes, Began, InPlace, ViewIsShown, WrittenSoFar
    <3>3. RowsKept'
      <4>1. CASE menu' = menu
        BY <3>1, <4>1 DEF RowsKept, RowsAreOf
      <4>2. ASSUME NEW done,
                   menu' = [menu EXCEPT ![name] =
                              Tray!Written(menu[name], new, new.written \cap done)]
            PROVE  RowsKept'
        <5>1. /\ name \in DOMAIN menu
              /\ RowsFit(renderedFor, Tray!Written(menu[name], new, new.written \cap done),
                         Tray!RowNamed(renderedFor, name))
          BY <3>1, UpdatedRow
        <5>2. /\ DOMAIN menu' = DOMAIN menu
              /\ \A other \in DOMAIN menu : other # name => menu'[other] = menu[other]
              /\ menu'[name] = Tray!Written(menu[name], new, new.written \cap done)
          BY <4>2, <5>1
        <5> QED
          BY <3>1, <5>1, <5>2 DEF RowsKept, RowsAreOf
      <4> QED
        BY <3>1, <4>1, <4>2
    <3> QED
      BY <3>2, <3>3
  <2>8. CASE Tray!Verify
    <3> DEFINE rows == Tray!Rows(target)
    <3>1. /\ worker = "Updating" /\ position > Tray!Len(rows) /\ worker' = "Waiting"
          /\ \/ lastView' = {target} /\ renderedFor' = target
             \/ lastView' = {} /\ renderedFor' = renderedFor
          /\ UNCHANGED <<phase, menu, target, position, refreshPending, clicked>>
      BY <2>8 DEF Tray!Verify, Tray!Rendered, Tray!RenderFails
    <3>2. MenuTypes' /\ Began' /\ InPlace' /\ WrittenSoFar'
      BY <3>1 DEF MenuTypes, Began, InPlace, WrittenSoFar
    <3>3. /\ Tray!MenuStructure(renderedFor) = Tray!MenuStructure(target)
          /\ IsView(target) /\ IsView(renderedFor)
      BY <3>1, MenuViewsAreViews DEF MenuTypes, InPlace
    <3>4. /\ rows \in Seq(RowNames) /\ DOMAIN menu = Tray!Range(rows)
          /\ DOMAIN Tray!Built(target) = DOMAIN menu
      BY <3>3, RowsAreNamed, SameStructureSameRows, BuiltRows
         DEF RowsKept, RowsAreOf
    <3>5. \A other \in DOMAIN menu : other \in RowNames
      BY <3>3, <3>4, BuiltNames
    <3>6. RowsKept'
      <4>1. CASE renderedFor' = target
        <5>1. ASSUME NEW other \in DOMAIN menu
              PROVE  RowsFit(target, menu[other], Tray!RowNamed(target, other))
          <6>1. RowsFit(renderedFor, menu[other], Tray!RowNamed(renderedFor, other))
            BY DEF RowsKept, RowsAreOf
          <6>2. RowsFit(renderedFor, Tray!RowNamed(renderedFor, other), Tray!RowNamed(target, other))
            BY <3>3, <3>5, SameStructureSameButWritten, Zenon
          <6>3. Tray!Enabled(renderedFor) = Tray!Enabled(target)
            BY <3>3, StructureSays, Zenon
          <6> QED
            BY <6>1, <6>2, <6>3 DEF RowsFit, SameButWritten
        <5> QED
          BY <3>1, <3>4, <4>1, <5>1 DEF RowsKept, RowsAreOf
      <4>2. CASE renderedFor' = renderedFor
        BY <3>1, <4>2 DEF RowsKept, RowsAreOf
      <4> QED
        BY <3>1, <4>1, <4>2
    <3>7. ViewIsShown'
      <4>1. CASE Excused(target)
        BY <3>1, <4>1 DEF ViewIsShown, Excused
      <4>2. CASE ~Excused(target)
        <5>1. \A i \in 1 .. position - 1 : menu[rows[i]] = Tray!RowNamed(target, rows[i])
          BY <3>1, <4>2, Zenon DEF WrittenSoFar
        <5>2. DOMAIN rows \subseteq 1 .. position - 1
          BY <3>1, <3>4 DEF MenuTypes
        <5>3. \A other \in DOMAIN menu : menu[other] = Tray!Built(target)[other]
          <6>1. ASSUME NEW other \in DOMAIN menu
                PROVE  menu[other] = Tray!RowNamed(target, other)
            BY <3>4, <5>1, <5>2 DEF Tray!Range
          <6> QED
            BY <3>4, <6>1, BuiltRows
        <5>4. menu = [other \in DOMAIN menu |-> menu[other]]
          BY Zenon DEF RowsKept, RowsAreOf
        <5>5. menu = Tray!Built(target)
          BY <3>4, <5>3, <5>4, BuiltRows
        <5> QED
          BY <3>1, <5>5 DEF ViewIsShown
      <4> QED
        BY <4>1, <4>2
    <3> QED
      BY <3>2, <3>6, <3>7
  <2>9. CASE UNCHANGED Tray!vars
    BY <2>9 DEF Tray!vars, MenuTypes, Began, InPlace, RowsKept, RowsAreOf,
                ViewIsShown, WrittenSoFar, Excused
  <2> QED
    BY <2>1, <2>2, <2>3, <2>4, <2>5, <2>6, <2>7, <2>8, <2>9 DEF Tray!Next
<1> QED BY <1>1, <1>2, PTL DEF Tray!Spec

LEMMA MenuIsShown == MenuInv => Tray!MenuIsWhatItIsTakenFor
BY DEF MenuInv, MenuTypes, ViewIsShown, Excused, Tray!MenuIsWhatItIsTakenFor,
       Tray!Enabled

-----------------------------------------------------------------------------
(* One adapter at a time: a behaviour of all of them is one of each.       *)

LEMMA EachIsItself ==
  AdaptersSpec => /\ Spec /\ MacOs!Spec /\ Power!Spec
                  /\ Login!Spec /\ Copying!Spec /\ Tray!Spec
<1>1. AdaptersInit => /\ Init /\ MacOs!Init /\ Power!Init
                      /\ Login!Init /\ Copying!Init /\ Tray!Init
  BY Zenon DEF AdaptersInit
<1> DEFINE Step == [AdaptersNext]_<<exercised, vars, macVars, powerVars, loginVars,
                                    copyVars, menuVars>>
<1> USE DEF AdaptersNext
<1> USE DEF macVars, powerVars, loginVars, copyVars, menuVars
<1>2. Step => [Next]_vars
  BY Zenon
<1>3. Step => [MacOs!Next]_(MacOs!vars)
  BY DEF MacOs!vars
<1>4. Step => [Power!Next]_(Power!vars)
  BY DEF Power!vars
<1>5. Step => [Login!Next]_(Login!vars)
  BY DEF Login!vars
<1>6. Step => [Copying!Next]_(Copying!vars)
  BY DEF Copying!vars
<1>7. Step => [Tray!Next]_(Tray!vars)
  BY DEF Tray!vars
<1> QED
  BY <1>1, <1>2, <1>3, <1>4, <1>5, <1>6, <1>7, PTL
     DEF AdaptersSpec, Spec, MacOs!Spec, Power!Spec, Login!Spec,
         Copying!Spec, Tray!Spec

-----------------------------------------------------------------------------
(* Results, for every number of requests and failures, and for reports of  *)
(* any length.                                                             *)

(* The Windows adapter owns every power request it has opened, whatever    *)
(* calls failed (sleep_inhibitor/windows.rs, acquire and release).         *)
THEOREM RequestsAreOwned == AdaptersSpec => []NoRequestIsForgotten
BY EachIsItself, WindowsOwns, PTL

(* The protection the Windows adapter reports is the protection the system *)
(* grants (sleep_inhibitor/windows.rs, state).                             *)
THEOREM ReportsAreReal == AdaptersSpec => []ReportedProtectionIsReal
BY EachIsItself, WindowsReports, PTL

(* The Windows adapter is a sleep inhibitor (sleep_inhibitor/mod.rs),      *)
(* judged by what the system does and not by what the adapter says.        *)
THEOREM AdapterImplementsInhibitor == AdaptersSpec => ImplementsInhibitor
BY EachIsItself, WindowsImplements, PTL

(* The macOS adapter owns exactly the assertion that the system honours    *)
(* (sleep_inhibitor/macos.rs, acquire and release).                        *)
THEOREM AssertionsAreOwned == AdaptersSpec => []MacOs!OwnsWhatIsHonoured
BY EachIsItself, MacOsOwns, PTL

(* The macOS adapter is a sleep inhibitor too.                             *)
THEOREM MacOsAdapterImplementsInhibitor == AdaptersSpec => MacOsImplementsInhibitor
BY EachIsItself, MacOsImplements, PTL DEF MacOsImplementsInhibitor

(* Outside publications the policy acts on the power source on show, but   *)
(* for a shutdown that overlaps a notification (power_source/mod.rs).      *)
THEOREM PolicyActsOnWhatIsShown == AdaptersSpec => []PolicyFollowsObserver
BY EachIsItself, PowerPolicyFollows, PTL DEF PolicyFollowsObserver

(* On macOS the system never calls back into a context that was freed      *)
(* (power_source/macos.rs).                                                *)
THEOREM ContextsOutliveSources == AdaptersSpec => []Power!ContextOutlivesSource
BY EachIsItself, PowerContexts, PTL

(* On Windows a notification that comes after shutdown changes nothing,    *)
(* unregistered or not (power_source/windows.rs).                          *)
THEOREM LateNotificationsChangeNothing == AdaptersSpec => LateNotificationsAreIgnored
BY EachIsItself, PowerLateNotifications, PTL DEF LateNotificationsAreIgnored

(* A tray that does not warn of launch at login can be trusted, whatever   *)
(* operations failed and whenever the process ended (launch_at_login.rs).  *)
THEOREM LoginWarningsCanBeTrusted == AdaptersSpec => []NoWarningMeansAgreement
<1>1. LoginInv => NoWarningMeansAgreement
  BY LoginAgreement DEF NoWarningMeansAgreement
<1> QED
  BY <1>1, EachIsItself, LoginInvariant, PTL

(* Copying diagnostics gives the clipboard back closed, with its memory    *)
(* owned once and the whole report on it if that is what the tray is told; *)
(* no report, of whatever lines, exceeds its limit (clipboard.rs,          *)
(* diagnostics/report.rs).                                                 *)
THEOREM ClipboardComesBack == AdaptersSpec => []ClipboardIsGivenBack
<1>1. CopyInv => ClipboardIsGivenBack
  BY CopyGivesBack DEF ClipboardIsGivenBack
<1> QED
  BY <1>1, EachIsItself, CopyInvariant, PTL

(* The menu shows what the tray takes it to show, whatever rows were       *)
(* written in place, failed half way or were flipped by clicks             *)
(* (tray_host.rs, NativeRenderer::render).                                 *)
THEOREM MenuShowsItsView == AdaptersSpec => []MenuIsWhatItIsTakenFor
<1>1. MenuInv => MenuIsWhatItIsTakenFor
  BY MenuIsShown DEF MenuIsWhatItIsTakenFor
<1> QED
  BY <1>1, EachIsItself, MenuInvariant, PTL

=============================================================================
