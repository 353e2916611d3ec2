-------------------------- MODULE ProcessExitProofs --------------------------
(***************************************************************************)
(* That the updater and the end of the process get on with each other, for *)
(* any versions, any number of commands and of quits.                      *)
(*                                                                         *)
(* Of the updater: the operation in progress is with one command, the open *)
(* dialog or the worker, and while it is with one of them nothing else can *)
(* change the pending update; so the answer to a dialog, which does not    *)
(* name an update, can only be about the one that was asked about.  Of the *)
(* exit: one thread cleans up, and the places it has been tell what has    *)
(* stopped; a restart, which cannot be put off, is asked for on macOS only,*)
(* where no second thread cleans up, so that it finds everything done or   *)
(* nothing.  The updater's part of the invariant is kept by its steps      *)
(* whatever the exit does, and the other way round but for one fact, that  *)
(* a worker that has ended, or is in the installer's hook, stays there.    *)
(***************************************************************************)
EXTENDS ProcessExit, SequenceTheorems, FiniteSetTheorems, TLAPS

-----------------------------------------------------------------------------
(* The commands waiting for the updater's worker.                          *)

Claiming == {"ManualCheck", "RequestInstall", "Confirmation"}

NoneIn(q) == \A n \in 1 .. Len(q) : q[n].op \notin Claiming

OneIn(q) ==
  \A m, n \in 1 .. Len(q) : q[m].op \in Claiming /\ q[n].op \in Claiming => m = n

AgreedIn(q, version) ==
  \A n \in 1 .. Len(q) : q[n].op = "Confirmation" => q[n].version = version

LEMMA NoneIsOne ==
  ASSUME NEW q, NoneIn(q)
  PROVE  OneIn(q) /\ \A version : AgreedIn(q, version)
BY DEF NoneIn, OneIn, AgreedIn, Claiming

LEMMA AppendCommand ==
  ASSUME NEW q \in Seq(Command), NEW c \in Command
  PROVE  /\ Append(q, c) \in Seq(Command)
         /\ NoneIn(Append(q, c)) <=> NoneIn(q) /\ c.op \notin Claiming
         /\ NoneIn(q) => OneIn(Append(q, c))
         /\ c.op \notin Claiming /\ OneIn(q) => OneIn(Append(q, c))
         /\ \A version :
              AgreedIn(q, version) /\ (c.op = "Confirmation" => c.version = version)
              => AgreedIn(Append(q, c), version)
<1> DEFINE r == Append(q, c)
<1>1. /\ r \in Seq(Command) /\ Len(q) \in Nat /\ Len(r) = Len(q) + 1
      /\ \A n \in 1 .. Len(q) : r[n] = q[n]
      /\ r[Len(q) + 1] = c
  OBVIOUS
<1>2. 1 .. Len(r) = (1 .. Len(q)) \cup {Len(q) + 1}
  BY <1>1
<1> HIDE DEF r
<1>3. NoneIn(r) <=> NoneIn(q) /\ c.op \notin Claiming
  BY <1>1, <1>2 DEF NoneIn
<1>4. NoneIn(q) => OneIn(r)
  BY <1>1, <1>2 DEF NoneIn, OneIn
<1>5. c.op \notin Claiming /\ OneIn(q) => OneIn(r)
  BY <1>1, <1>2 DEF OneIn
<1>6. ASSUME NEW version, AgreedIn(q, version), c.op = "Confirmation" => c.version = version
      PROVE  AgreedIn(r, version)
  BY <1>1, <1>2, <1>6 DEF AgreedIn
<1> QED
  BY <1>1, <1>3, <1>4, <1>5, <1>6 DEF r

LEMMA TailCommand ==
  ASSUME NEW q \in Seq(Command), q # <<>>
  PROVE  /\ Tail(q) \in Seq(Command)
         /\ OneIn(q) => OneIn(Tail(q))
         /\ OneIn(q) /\ Head(q).op \in Claiming => NoneIn(Tail(q)) /\ ~NoneIn(q)
         /\ Head(q).op \notin Claiming => (NoneIn(Tail(q)) <=> NoneIn(q))
         /\ \A version : AgreedIn(q, version) =>
              /\ AgreedIn(Tail(q), version)
              /\ Head(q).op = "Confirmation" => Head(q).version = version
<1> DEFINE r == Tail(q)
<1>1. /\ r \in Seq(Command) /\ Len(q) \in Nat \ {0} /\ Len(r) = Len(q) - 1
      /\ \A n \in 1 .. Len(r) : n + 1 \in 1 .. Len(q) /\ r[n] = q[n + 1]
      /\ Head(q) = q[1] /\ 1 \in 1 .. Len(q)
  OBVIOUS
<1> HIDE DEF r
<1>2. \A n \in 1 .. Len(q) : n = 1 \/ (n - 1 \in 1 .. Len(r) /\ q[n] = r[n - 1])
  <2>1. ASSUME NEW n \in 1 .. Len(q), n # 1
        PROVE  n - 1 \in 1 .. Len(r) /\ (n - 1) + 1 = n
    BY <1>1, <2>1
  <2> QED
    BY <1>1, <2>1
<1>3. OneIn(q) => OneIn(r)
  BY <1>1 DEF OneIn
<1>4. OneIn(q) /\ Head(q).op \in Claiming => NoneIn(r) /\ ~NoneIn(q)
  BY <1>1 DEF OneIn, NoneIn
<1>5. Head(q).op \notin Claiming => (NoneIn(r) <=> NoneIn(q))
  BY <1>1, <1>2 DEF NoneIn
<1>6. ASSUME NEW version, AgreedIn(q, version)
      PROVE  /\ AgreedIn(r, version)
             /\ Head(q).op = "Confirmation" => Head(q).version = version
  BY <1>1, <1>6 DEF AgreedIn
<1> QED
  BY <1>1, <1>3, <1>4, <1>5, <1>6 DEF r

-----------------------------------------------------------------------------
(* The updater.                                                            *)

(* One operation: with the commands, the dialog or the worker.             *)
OneInv ==
  /\ commands \in Seq(Command)
  /\ claimed \in BOOLEAN
  /\ OneIn(commands)
  /\ \A v, w \in dialogs : v = w
  /\ dialogs # {} => NoneIn(commands)
  /\ Working => NoneIn(commands) /\ dialogs = {}
  /\ claimed <=> ~NoneIn(commands) \/ dialogs # {} \/ Working

(* What the user is asked about, and what is done then, is the update that *)
(* is pending.                                                             *)
ConsentInv ==
  /\ pending \in Offer
  /\ dialogs \subseteq Versions
  /\ \A v \in dialogs : v = pending
  /\ AgreedIn(commands, pending)
  /\ worker \in {"Downloading", "Installing", "NativeExit"} =>
       target \in Versions /\ consent = target

(* What is published, or about to be.                                      *)
OfferInv ==
  /\ worker = "CheckingAutomatic" => pending = NoUpdate
  /\ worker = "Settling" => verdict.version = pending
  /\ worker = "Installing" => status.kind = "Installing"
  /\ accepting /\ worker = "Waiting" /\ status.kind # "Installing" =>
       status.version = pending

UInv == OneInv /\ ConsentInv /\ OfferInv

LEMMA UpdaterStarts == UpdaterInit => UInv
<1> SUFFICES ASSUME UpdaterInit PROVE UInv
  OBVIOUS
<1>1. commands = <<Plain("Activate")>> /\ Plain("Activate") \in Command
  BY DEF UpdaterInit, Command
<1>2. commands \in Seq(Command) /\ Len(commands) = 1 /\ commands[1].op = "Activate"
  BY <1>1 DEF Plain
<1>3. NoneIn(commands)
  BY <1>2 DEF NoneIn, Claiming
<1> QED
  BY <1>2, <1>3, NoneIsOne
  DEF UpdaterInit, UInv, OneInv, ConsentInv, OfferInv, Working, Offer, Status

(* A command that is received leaves the others as they were.              *)
LEMMA Received ==
  ASSUME UInv, NEW op, Receive(op)
  PROVE  /\ worker = "Waiting" /\ ~Working
         /\ commands' \in Seq(Command) /\ OneIn(commands')
         /\ AgreedIn(commands', pending)
         /\ op \in Claiming => claimed /\ NoneIn(commands') /\ dialogs = {}
         /\ op \notin Claiming => (NoneIn(commands') <=> NoneIn(commands))
         /\ op = "Confirmation" => Head(commands).version = pending
<1>1. worker = "Waiting" /\ commands # <<>> /\ Head(commands).op = op
      /\ commands' = Tail(commands)
  BY DEF Receive
<1>2. commands \in Seq(Command) /\ OneIn(commands) /\ AgreedIn(commands, pending)
  BY DEF UInv, OneInv, ConsentInv
<1>3. /\ commands' \in Seq(Command) /\ OneIn(commands') /\ AgreedIn(commands', pending)
      /\ op \in Claiming => NoneIn(commands') /\ ~NoneIn(commands)
      /\ op \notin Claiming => (NoneIn(commands') <=> NoneIn(commands))
      /\ op = "Confirmation" => Head(commands).version = pending
  BY <1>1, <1>2, TailCommand
<1>4. op \in Claiming => claimed /\ dialogs = {}
  BY <1>3 DEF UInv, OneInv
<1> QED
  BY <1>1, <1>3, <1>4 DEF Working

(* A command that claims the operation, and one that does not.             *)
LEMMA Sent ==
  ASSUME UInv, NEW c \in Command, commands' = Append(commands, c)
  PROVE  /\ commands' \in Seq(Command)
         /\ c.op \in Claiming /\ NoneIn(commands) => OneIn(commands') /\ ~NoneIn(commands')
         /\ c.op \notin Claiming => OneIn(commands') /\ (NoneIn(commands') <=> NoneIn(commands))
         /\ (c.op = "Confirmation" => c.version = pending) => AgreedIn(commands', pending)
BY AppendCommand DEF UInv, OneInv, ConsentInv

LEMMA CommandsAre ==
  /\ \A op \in {"Activate", "Toggle", "ManualCheck", "RequestInstall", "Stop"} :
       Plain(op) \in Command /\ Plain(op).op = op
  /\ \A confirmed \in BOOLEAN, version \in Versions :
       /\ Confirmation(confirmed, version) \in Command
       /\ Confirmation(confirmed, version).op = "Confirmation"
       /\ Confirmation(confirmed, version).version = version
<1>1. \A op \in {"Activate", "Toggle", "ManualCheck", "RequestInstall", "Stop"} :
        Plain(op) \in Command
  BY DEF Command
<1>2. \A confirmed \in BOOLEAN, version \in Versions :
        Confirmation(confirmed, version) \in Command
  BY DEF Command
<1> QED
  BY <1>1, <1>2 DEF Plain, Confirmation

LEMMA UpdaterServes ==
  ASSUME UInv, ServiceStep PROVE UInv'
<1>1. CASE ToggleAutomaticChecks
  <2>1. commands' = Append(commands, Plain("Toggle"))
    BY <1>1 DEF ToggleAutomaticChecks
  <2>2. /\ commands' \in Seq(Command) /\ OneIn(commands')
        /\ NoneIn(commands') <=> NoneIn(commands)
        /\ AgreedIn(commands', pending)
    BY <2>1, CommandsAre, Sent DEF Claiming
  <2> QED
    BY <1>1, <2>2
    DEF ToggleAutomaticChecks, workerVars, UInv, OneInv, ConsentInv, OfferInv, Working
<1>2. CASE CheckManually
  <2>1. commands' = Append(commands, Plain("ManualCheck")) /\ ~claimed
    BY <1>2 DEF CheckManually
  <2>2. NoneIn(commands) /\ dialogs = {} /\ ~Working
    BY <2>1 DEF UInv, OneInv
  <2>3. /\ commands' \in Seq(Command) /\ OneIn(commands') /\ ~NoneIn(commands')
        /\ AgreedIn(commands', pending)
    BY <2>1, <2>2, CommandsAre, Sent DEF Claiming
  <2> QED
    BY <1>2, <2>2, <2>3
    DEF CheckManually, workerVars, UInv, OneInv, ConsentInv, OfferInv, Working
<1>3. CASE RequestInstall
  BY <1>3
  DEF RequestInstall, serviceVars, workerVars, UInv, OneInv, ConsentInv, OfferInv, Working
<1>4. CASE ClaimInstall
  <2>1. CASE accepting /\ ~claimed
    <3>1. commands' = Append(commands, Plain("RequestInstall")) /\ claimed' = TRUE
      BY <1>4, <2>1 DEF ClaimInstall
    <3>2. NoneIn(commands) /\ dialogs = {} /\ ~Working
      BY <2>1 DEF UInv, OneInv
    <3>3. /\ commands' \in Seq(Command) /\ OneIn(commands') /\ ~NoneIn(commands')
          /\ AgreedIn(commands', pending)
      BY <3>1, <3>2, CommandsAre, Sent DEF Claiming
    <3> QED
      BY <1>4, <3>1, <3>2, <3>3
      DEF ClaimInstall, workerVars, UInv, OneInv, ConsentInv, OfferInv, Working
  <2>2. CASE ~(accepting /\ ~claimed)
    BY <1>4, <2>2
    DEF ClaimInstall, workerVars, UInv, OneInv, ConsentInv, OfferInv, Working
  <2> QED
    BY <2>1, <2>2
<1>5. ASSUME NEW version \in Versions, NEW confirmed \in BOOLEAN,
             AnswerDialog(version, confirmed)
      PROVE  UInv'
  <2>1. /\ version \in dialogs /\ dialogs' = dialogs \ {version}
        /\ UNCHANGED <<status, accepting, workerVars, consent>>
    BY <1>5 DEF AnswerDialog
  <2>2. dialogs' = {} /\ version = pending /\ NoneIn(commands) /\ ~Working
    BY <2>1 DEF UInv, OneInv, ConsentInv
  <2>3. CASE accepting /\ worker # "Exited"
    <3>1. commands' = Append(commands, Confirmation(confirmed, version)) /\ UNCHANGED claimed
      BY <1>5, <2>3 DEF AnswerDialog
    <3>2. /\ commands' \in Seq(Command) /\ OneIn(commands') /\ ~NoneIn(commands')
          /\ AgreedIn(commands', pending)
      BY <2>2, <3>1, CommandsAre, Sent DEF Claiming
    <3> QED
      BY <2>1, <2>2, <3>1, <3>2
      DEF workerVars, UInv, OneInv, ConsentInv, OfferInv, Working
  <2>4. CASE ~(accepting /\ worker # "Exited")
    <3>1. claimed' = FALSE /\ UNCHANGED commands
      BY <1>5, <2>4 DEF AnswerDialog
    <3> QED
      BY <2>1, <2>2, <3>1
      DEF workerVars, UInv, OneInv, ConsentInv, OfferInv, Working
  <2> QED
    BY <2>3, <2>4
<1> QED
  BY <1>1, <1>2, <1>3, <1>4, <1>5 DEF ServiceStep

LEMMA UpdaterStops ==
  ASSUME UInv, BeginUpdaterShutdown \/ StopUpdater PROVE UInv'
<1>1. CASE BeginUpdaterShutdown
  BY <1>1
  DEF BeginUpdaterShutdown, workerVars, UInv, OneInv, ConsentInv, OfferInv, Working
<1>2. CASE StopUpdater
  <2>1. commands' = Append(commands, Plain("Stop"))
    BY <1>2 DEF StopUpdater
  <2>2. /\ commands' \in Seq(Command) /\ OneIn(commands')
        /\ NoneIn(commands') <=> NoneIn(commands)
        /\ AgreedIn(commands', pending)
    BY <2>1, CommandsAre, Sent DEF Claiming
  <2> QED
    BY <1>2, <2>2
    DEF StopUpdater, workerVars, UInv, OneInv, ConsentInv, OfferInv, Working
<1> QED
  BY <1>1, <1>2

LEMMA AutomaticAttempted ==
  ASSUME UInv, worker = "Waiting",
         NEW wanted, AttemptAutomatic(wanted),
         commands' \in Seq(Command), OneIn(commands'), AgreedIn(commands', pending),
         NoneIn(commands') <=> NoneIn(commands),
         UNCHANGED <<accepting, dialogs, pending, target, consent>>
  PROVE  UInv'
<1>1. CASE UNCHANGED <<status, claimed, worker, verdict>>
  BY <1>1 DEF UInv, OneInv, ConsentInv, OfferInv, Working
<1>2. CASE pending = NoUpdate /\ ~claimed /\ Settle(Status("Failed", NoUpdate))
  BY <1>2 DEF Settle, Status, UInv, OneInv, ConsentInv, OfferInv, Working
<1>3. CASE /\ pending = NoUpdate /\ ~claimed
           /\ claimed' = TRUE /\ worker' = "CheckingAutomatic"
  BY <1>3 DEF UInv, OneInv, ConsentInv, OfferInv, Working
<1> QED
  BY <1>1, <1>2, <1>3 DEF AttemptAutomatic

(* What the worker does with a command.                                    *)
LEMMA WorkerReceives ==
  ASSUME UInv,
         \/ Activate \/ Toggle \/ BeginManualCheck \/ BeginInstallRequest
         \/ HandleConfirmation \/ RefuseCommand \/ ExitWorker
  PROVE  UInv'
<1>1. CASE Activate
  <2>1. /\ worker = "Waiting" /\ AttemptAutomatic(enabled)
        /\ UNCHANGED <<accepting, dialogs, pending, target, consent>>
    BY <1>1 DEF Activate, Receive
  <2>2. /\ commands' \in Seq(Command) /\ OneIn(commands') /\ AgreedIn(commands', pending)
        /\ NoneIn(commands') <=> NoneIn(commands)
    <3>1. CASE Receive("Activate")
      BY <3>1, Received DEF Claiming
    <3>2. CASE UNCHANGED commands
      BY <3>2 DEF UInv, OneInv, ConsentInv
    <3> QED
      BY <1>1, <3>1, <3>2 DEF Activate
  <2> QED
    BY <2>1, <2>2, AutomaticAttempted
<1>2. CASE Toggle
  <2>1. /\ worker = "Waiting"
        /\ commands' \in Seq(Command) /\ OneIn(commands') /\ AgreedIn(commands', pending)
        /\ NoneIn(commands') <=> NoneIn(commands)
        /\ UNCHANGED <<accepting, dialogs, pending, target, consent>>
    BY <1>2, Received DEF Toggle, Claiming
  <2>2. CASE enabled' = ~enabled /\ AttemptAutomatic(enabled')
    BY <2>1, <2>2, AutomaticAttempted
  <2>3. CASE UNCHANGED <<enabled, nextAutomatic, status, claimed, worker, verdict>>
    BY <2>1, <2>3 DEF UInv, OneInv, ConsentInv, OfferInv, Working
  <2> QED
    BY <1>2, <2>2, <2>3 DEF Toggle
<1>3. CASE BeginManualCheck
  <2>1. /\ commands' \in Seq(Command) /\ OneIn(commands') /\ AgreedIn(commands', pending)
        /\ claimed /\ NoneIn(commands') /\ dialogs = {}
    BY <1>3, Received DEF BeginManualCheck, Claiming
  <2> QED
    BY <1>3, <2>1
    DEF BeginManualCheck, UInv, OneInv, ConsentInv, OfferInv, Working
<1>4. CASE BeginInstallRequest
  <2>1. /\ worker = "Waiting" /\ ~Working
        /\ commands' \in Seq(Command) /\ OneIn(commands') /\ AgreedIn(commands', pending)
        /\ claimed /\ NoneIn(commands') /\ dialogs = {}
    BY <1>4, Received DEF BeginInstallRequest, Claiming
  <2>2. CASE pending = NoUpdate
    BY <1>4, <2>1, <2>2
    DEF BeginInstallRequest, workerVars, UInv, OneInv, ConsentInv, OfferInv, Working
  <2>3. CASE pending # NoUpdate
    <3>1. dialogs' = {pending} /\ pending \in Versions /\ status'.version = pending
          /\ UNCHANGED <<claimed, accepting, workerVars, consent>>
      BY <1>4, <2>1, <2>3 DEF BeginInstallRequest, UInv, ConsentInv, Offer, Status
    <3> QED
      BY <2>1, <3>1
      DEF workerVars, UInv, OneInv, ConsentInv, OfferInv, Working
  <2> QED
    BY <2>2, <2>3
<1>5. CASE HandleConfirmation
  <2>1. /\ worker = "Waiting" /\ ~Working
        /\ commands' \in Seq(Command) /\ OneIn(commands') /\ AgreedIn(commands', pending)
        /\ claimed /\ NoneIn(commands') /\ dialogs = {}
        /\ Head(commands).version = pending
        /\ UNCHANGED <<accepting, dialogs>>
    BY <1>5, Received DEF HandleConfirmation, Claiming
  <2>2. CASE /\ Settle(Status("UpdateAvailable", pending))
             /\ UNCHANGED <<status, pending, target, consent>>
    BY <2>1, <2>2 DEF Settle, Status, UInv, OneInv, ConsentInv, OfferInv, Working
  <2>3. CASE /\ consent' = Head(commands).version
             /\ pending = NoUpdate
             /\ claimed' = FALSE
             /\ UNCHANGED <<status, worker, pending, target, verdict>>
    BY <2>1, <2>3 DEF UInv, OneInv, ConsentInv, OfferInv, Working
  <2>4. CASE /\ consent' = Head(commands).version
             /\ pending # NoUpdate
             /\ target' = pending
             /\ pending' = NoUpdate
             /\ worker' = "Downloading"
             /\ UNCHANGED <<claimed, verdict>>
    <3>1. /\ consent' = target' /\ target' \in Versions /\ pending' \in Offer
          /\ AgreedIn(commands', pending')
      BY <2>1, <2>4, NoneIsOne DEF UInv, ConsentInv, Offer
    <3> QED
      BY <2>1, <2>4, <3>1 DEF UInv, OneInv, ConsentInv, OfferInv, Working
  <2> QED
    BY <1>5, <2>2, <2>3, <2>4 DEF HandleConfirmation
<1>6. CASE RefuseCommand
  <2>1. UNCHANGED <<status, accepting, dialogs, workerVars, consent>> /\ ~accepting
    BY <1>6 DEF RefuseCommand
  <2>2. ASSUME NEW op \in {"ManualCheck", "RequestInstall", "Confirmation"}, Receive(op),
               claimed' = FALSE
        PROVE  UInv'
    <3>1. /\ ~Working
          /\ commands' \in Seq(Command) /\ OneIn(commands') /\ AgreedIn(commands', pending)
          /\ NoneIn(commands') /\ dialogs = {}
      BY <2>2, Received DEF Claiming
    <3> QED
      BY <2>1, <2>2, <3>1
      DEF workerVars, UInv, OneInv, ConsentInv, OfferInv, Working
  <2>3. ASSUME NEW op \in {"Activate", "Toggle"}, Receive(op), UNCHANGED claimed
        PROVE  UInv'
    <3>1. /\ commands' \in Seq(Command) /\ OneIn(commands') /\ AgreedIn(commands', pending)
          /\ NoneIn(commands') <=> NoneIn(commands)
      BY <2>3, Received DEF Claiming
    <3> QED
      BY <2>1, <2>3, <3>1
      DEF workerVars, UInv, OneInv, ConsentInv, OfferInv, Working
  <2> QED
    BY <1>6, <2>2, <2>3 DEF RefuseCommand
<1>7. CASE ExitWorker
  <2>1. /\ ~Working
        /\ commands' \in Seq(Command) /\ OneIn(commands') /\ AgreedIn(commands', pending)
        /\ NoneIn(commands') <=> NoneIn(commands)
    BY <1>7, Received DEF ExitWorker, Claiming
  <2> QED
    BY <1>7, <2>1 DEF ExitWorker, UInv, OneInv, ConsentInv, OfferInv, Working
<1> QED
  BY <1>1, <1>2, <1>3, <1>4, <1>5, <1>6, <1>7

(* How the worker's operations end: nothing waits for it that could have   *)
(* been about another update.                                              *)
LEMMA WorkerEnds ==
  ASSUME UInv,
         \/ PublishVerdict \/ AutomaticCheckEnds \/ ManualCheckEnds \/ DownloadEnds
         \/ InstallFails \/ InstallReturns \/ InstallHandsOver
  PROVE  UInv'
<1>1. CASE PublishVerdict
  BY <1>1 DEF PublishVerdict, UInv, OneInv, ConsentInv, OfferInv, Working
<1>2. SUFFICES ASSUME ~PublishVerdict PROVE UInv'
  BY <1>1
<1>3. Working /\ UNCHANGED <<accepting, commands>>
  BY <1>2
  DEF AutomaticCheckEnds, ManualCheckEnds, DownloadEnds, InstallFails, InstallReturns,
      InstallHandsOver, serviceVars, Working
<1>4. NoneIn(commands) /\ dialogs = {} /\ claimed
  BY <1>3 DEF UInv, OneInv
<1>5. /\ commands' \in Seq(Command) /\ OneIn(commands') /\ NoneIn(commands')
      /\ \A version : AgreedIn(commands', version)
  BY <1>3, <1>4, NoneIsOne DEF UInv, OneInv
<1>6. CASE AutomaticCheckEnds
  <2>1. UNCHANGED <<dialogs, status>> /\ pending = NoUpdate
    BY <1>6 DEF AutomaticCheckEnds, UInv, OfferInv
  <2>2. ASSUME NEW version \in Versions, pending' = version,
               Settle(Status("UpdateAvailable", version))
        PROVE  UInv'
    BY <1>3, <1>4, <1>5, <2>1, <2>2
    DEF Settle, Status, Offer, UInv, OneInv, ConsentInv, OfferInv, Working
  <2>3. ASSUME NEW kind, Settle(Status(kind, NoUpdate)), UNCHANGED pending
        PROVE  UInv'
    BY <1>3, <1>4, <1>5, <2>1, <2>3
    DEF Settle, Status, Offer, UInv, OneInv, ConsentInv, OfferInv, Working
  <2> QED
    BY <1>6, <2>2, <2>3 DEF AutomaticCheckEnds
<1>7. CASE ManualCheckEnds
  <2>1. UNCHANGED <<target, consent>> /\ worker = "CheckingManual"
    BY <1>7 DEF ManualCheckEnds
  <2>2. CASE /\ pending' = NoUpdate
             /\ Settle(Status("UpToDate", NoUpdate))
             /\ UNCHANGED <<status, dialogs>>
    BY <1>3, <1>4, <1>5, <2>1, <2>2
    DEF Settle, Status, Offer, UInv, OneInv, ConsentInv, OfferInv, Working
  <2>3. CASE Settle(Status("Failed", pending)) /\ UNCHANGED <<status, dialogs, pending>>
    BY <1>3, <1>4, <1>5, <2>1, <2>3
    DEF Settle, Status, Offer, UInv, OneInv, ConsentInv, OfferInv, Working
  <2>4. CASE /\ pending' \in Versions /\ worker' = "Waiting" /\ accepting
             /\ status' = Status("AwaitingConfirmation", pending')
             /\ dialogs' = dialogs \cup {pending'}
             /\ UNCHANGED claimed
    <3>1. dialogs' = {pending'} /\ status'.version = pending'
      BY <1>4, <2>4 DEF Status
    <3> QED
      BY <1>3, <1>4, <1>5, <2>1, <2>4, <3>1
      DEF Offer, UInv, OneInv, ConsentInv, OfferInv, Working
  <2>5. CASE /\ pending' \in Versions /\ worker' = "Waiting" /\ ~accepting
             /\ claimed' = FALSE
             /\ UNCHANGED <<status, dialogs>>
    BY <1>3, <1>4, <1>5, <2>1, <2>5
    DEF Offer, UInv, OneInv, ConsentInv, OfferInv, Working
  <2> QED
    BY <1>7, <2>2, <2>3, <2>4, <2>5 DEF ManualCheckEnds
<1>8. ASSUME RetainFailedUpdate, worker \in {"Downloading", "Installing"},
             UNCHANGED <<dialogs, target, consent>>
      PROVE  UInv'
  BY <1>3, <1>4, <1>5, <1>8
  DEF RetainFailedUpdate, Settle, Status, Offer, UInv, OneInv, ConsentInv, OfferInv, Working
<1>9. CASE DownloadEnds
  <2>1. UNCHANGED <<dialogs, target, consent>> /\ worker = "Downloading"
    BY <1>9 DEF DownloadEnds
  <2>2. CASE RetainFailedUpdate
    BY <1>8, <2>1, <2>2
  <2>3. CASE ~accepting /\ pending' = target /\ claimed' = FALSE /\ worker' = "Waiting"
    BY <1>3, <1>4, <1>5, <2>1, <2>3
    DEF Offer, UInv, OneInv, ConsentInv, OfferInv, Working
  <2>4. CASE /\ status' = Status("Installing", target) /\ worker' = "Installing"
             /\ UNCHANGED <<claimed, pending>>
    BY <1>3, <1>4, <1>5, <2>1, <2>4
    DEF Status, Offer, UInv, OneInv, ConsentInv, OfferInv, Working
  <2> QED
    BY <1>9, <2>2, <2>3, <2>4 DEF DownloadEnds
<1>10. CASE InstallFails
  BY <1>8, <1>10 DEF InstallFails
<1>11. CASE InstallReturns
  BY <1>3, <1>4, <1>5, <1>11
  DEF InstallReturns, UInv, OneInv, ConsentInv, OfferInv, Working
<1>12. CASE InstallHandsOver
  BY <1>3, <1>4, <1>5, <1>12
  DEF InstallHandsOver, serviceVars, UInv, OneInv, ConsentInv, OfferInv, Working
<1> QED
  BY <1>1, <1>6, <1>7, <1>9, <1>10, <1>11, <1>12

LEMMA UpdaterWorks ==
  ASSUME UInv, WorkerStep PROVE UInv'
BY WorkerReceives, WorkerEnds DEF WorkerStep

LEMMA OneIsOneOperation ==
  ASSUME OneInv PROVE OneOperationAtATime
<1>1. commands \in Seq(Command) /\ OneIn(commands)
  BY DEF OneInv
<1>2. NoneIn(commands) <=> ClaimedCommands = {}
  BY DEF NoneIn, ClaimedCommands, Claiming
<1>3. ASSUME NEW S, NEW x \in S, \A y \in S : y = x
      PROVE  Cardinality(S) = 1
  <2>1. S = {x}
    BY <1>3
  <2> QED
    BY <2>1, FS_Singleton
<1>4. Cardinality({}) = 0
  BY FS_EmptySet
<1>5. ClaimedCommands # {} => Cardinality(ClaimedCommands) = 1
  BY <1>1, <1>3 DEF OneIn, ClaimedCommands, Claiming
<1>6. dialogs # {} => Cardinality(dialogs) = 1
  BY <1>3 DEF OneInv
<1> DEFINE atWork == IF Working THEN 1 ELSE 0
<1>7. CASE Working
  <2>1. ClaimedCommands = {} /\ dialogs = {} /\ claimed
    BY <1>2, <1>7 DEF OneInv
  <2>2. Operations = 1
    BY <1>4, <1>7, <2>1 DEF Operations
  <2> QED
    BY <2>1, <2>2 DEF OneOperationAtATime
<1>8. CASE ~Working /\ dialogs # {}
  <2>1. ClaimedCommands = {} /\ claimed
    BY <1>2, <1>8 DEF OneInv
  <2>2. Operations = 1
    BY <1>4, <1>6, <1>8, <2>1 DEF Operations
  <2> QED
    BY <2>1, <2>2 DEF OneOperationAtATime
<1>9. CASE ~Working /\ dialogs = {} /\ ClaimedCommands # {}
  <2>1. claimed
    BY <1>2, <1>9 DEF OneInv
  <2>2. Operations = 1
    BY <1>4, <1>5, <1>9 DEF Operations
  <2> QED
    BY <2>1, <2>2 DEF OneOperationAtATime
<1>10. CASE ~Working /\ dialogs = {} /\ ClaimedCommands = {}
  <2>1. ~claimed
    BY <1>2, <1>10 DEF OneInv
  <2>2. Operations = 0
    BY <1>4, <1>10 DEF Operations
  <2> QED
    BY <2>1, <2>2 DEF OneOperationAtATime
<1> QED
  BY <1>7, <1>8, <1>9, <1>10

LEMMA OffersAndConsent ==
  ASSUME UInv PROVE ConsentIsForThisUpdate /\ OfferIsHeld
BY UpdaterAssumption DEF UInv, ConsentInv, OfferInv, ConsentIsForThisUpdate, OfferIsHeld

(* What the process does to the updater.                                   *)
LEMMA UpdaterSteps ==
  ASSUME [Next]_vars
  PROVE  \/ ServiceStep \/ WorkerStep \/ BeginUpdaterShutdown \/ StopUpdater
         \/ UNCHANGED updaterVars
<1>1. CASE UpdaterStep
  BY <1>1 DEF UpdaterStep
<1>2. CASE Quit \/ Restart \/ StartRender \/ TrayStep
  BY <1>2 DEF Quit, Restart, StartRender, TrayStep, ServeMenu, StopTray
<1>3. CASE MainStep \/ EnterHook
  BY <1>3 DEF MainStep, HandleExit, Begin, RequestExit, EnterHook
<1>4. ASSUME NEW t \in Thread, FinishStep(t)
      PROVE  BeginUpdaterShutdown \/ StopUpdater \/ UNCHANGED updaterVars
  BY <1>4
  DEF FinishStep, ClaimFinish, FinishAwaited, Begin, StopPresentation, JoinPresentation,
      StopProduct, JoinUpdater, StopRest, CompleteFinish, EndProcess
<1>5. CASE UNCHANGED vars
  BY <1>5 DEF vars
<1> QED
  BY <1>1, <1>2, <1>3, <1>4, <1>5 DEF Next

LEMMA UpdaterInProcess ==
  ASSUME UInv, [Next]_vars PROVE UInv'
<1>1. CASE UNCHANGED updaterVars
  BY <1>1
  DEF updaterVars, serviceVars, workerVars, UInv, OneInv, ConsentInv, OfferInv, Working
<1> QED
  BY <1>1, UpdaterSteps, UpdaterServes, UpdaterWorks, UpdaterStops

-----------------------------------------------------------------------------
(* The two threads that may run the shutdown.                              *)

Ended == worker \in {"Exited", "NativeExit"}

Cleaning(t) == at[t] \in {"CleanBegin", "StopPresentation", "JoinPresentation",
                          "StopProduct", "JoinUpdater", "StopRest", "Complete"}

(* One thread at a time cleans up, and it finds everything still there.    *)
CleanInv ==
  /\ at \in [Thread -> Place]
  /\ finishing \in {"Idle", "Running", "Complete"}
  /\ \A t \in Thread : Cleaning(t) => finishing = "Running"
  /\ \A s, t \in Thread : Cleaning(s) /\ Cleaning(t) => s = t
  /\ finishing = "Idle" => productOwned /\ presentOwned
  /\ \A t \in Thread :
       /\ at[t] \in {"CleanBegin", "StopPresentation"} => presentOwned
       /\ at[t] \in {"CleanBegin", "StopPresentation", "JoinPresentation",
                     "StopProduct"} => productOwned

(* What has been stopped by when, and who holds the product's lock.        *)
StopInv ==
  /\ \A t \in Thread :
       /\ at[t] \in {"StopProduct", "JoinUpdater", "StopRest", "Complete"} =>
            tray = "Stopped"
       /\ at[t] = "Complete" => productStopped
       /\ at[t] = "Finished" => finishing = "Complete"
       /\ productLock = t <=> at[t] \in {"JoinUpdater", "StopRest"}
       /\ at[t] = "StopRest" => Ended
  /\ finishing = "Complete" => productStopped /\ tray = "Stopped"
  /\ productLock \in Thread \cup {Free}
  /\ at["Updater"] # "Loop" => worker = "NativeExit"
  /\ workerExit # "Running" => Ended

EInv == CleanInv /\ StopInv

LEMMA Went ==
  ASSUME at \in [Thread -> Place], NEW t \in Thread, NEW from, NEW to \in Place,
         Go(t, from, to)
  PROVE  /\ at' \in [Thread -> Place]
         /\ at[t] = from /\ at'[t] = to
         /\ \A s \in Thread \ {t} : at'[s] = at[s]
BY DEF Go

LEMMA WorkerStaysEnded ==
  /\ WorkerStep => ~Ended /\ (workerExit' = workerExit \/ Ended')
  /\ ServiceStep \/ BeginUpdaterShutdown \/ StopUpdater => UNCHANGED <<worker, workerExit>>
<1>1. ASSUME WorkerStep PROVE ~Ended /\ (workerExit' = workerExit \/ Ended')
  BY <1>1
  DEF WorkerStep, Ended, Activate, Toggle, BeginManualCheck, BeginInstallRequest,
      HandleConfirmation, RefuseCommand, ExitWorker, PublishVerdict, AutomaticCheckEnds,
      ManualCheckEnds, DownloadEnds, InstallFails, InstallReturns, InstallHandsOver,
      Receive, workerVars
<1>2. ASSUME ServiceStep \/ BeginUpdaterShutdown \/ StopUpdater
      PROVE  UNCHANGED <<worker, workerExit>>
  BY <1>2
  DEF ServiceStep, ToggleAutomaticChecks, CheckManually, RequestInstall, ClaimInstall,
      AnswerDialog, BeginUpdaterShutdown, StopUpdater, workerVars
<1> QED
  BY <1>1, <1>2

LEMMA ExitStarts == Init => EInv
<1>1. Init => Free \notin Thread
  BY DEF Free, Thread
<1> QED
  BY <1>1
  DEF Init, UpdaterInit, EInv, CleanInv, StopInv, Place, Thread, Cleaning, Ended, Free

(* Steps on which neither thread moves on.                                 *)
LEMMA OthersStep ==
  ASSUME EInv, UpdaterStep \/ Quit \/ Restart \/ StartRender \/ TrayStep
  PROVE  EInv'
<1>1. UNCHANGED <<at, finishing, productOwned, presentOwned, productStopped, productLock>>
  BY DEF UpdaterStep, Quit, Restart, StartRender, TrayStep, ServeMenu, StopTray, exitVars
<1>2. CleanInv'
  BY <1>1 DEF EInv, CleanInv, Cleaning
<1>3. tray = "Stopped" => tray' = "Stopped"
  BY DEF UpdaterStep, Quit, Restart, StartRender, TrayStep, ServeMenu, StopTray, exitVars
<1>4. CASE UNCHANGED <<worker, workerExit>>
  BY <1>1, <1>2, <1>3, <1>4 DEF EInv, StopInv, Ended
<1>5. CASE WorkerStep
  <2>1. ~Ended /\ (workerExit' = workerExit \/ Ended')
    BY <1>5, WorkerStaysEnded
  <2>2. at["Updater"] = "Loop" /\ \A t \in Thread : at[t] # "StopRest"
    BY <2>1 DEF EInv, StopInv, Ended
  <2> QED
    BY <1>1, <1>2, <1>3, <2>1, <2>2 DEF EInv, StopInv
<1>6. WorkerStep \/ UNCHANGED <<worker, workerExit>>
  BY WorkerStaysEnded
  DEF UpdaterStep, Quit, Restart, StartRender, TrayStep, ServeMenu, StopTray, updaterVars,
      workerVars
<1> QED
  BY <1>4, <1>5, <1>6

(* The main thread's exit handler, and the worker's way into the hook.     *)
LEMMA HandlerStep ==
  ASSUME EInv, MainStep \/ EnterHook
  PROVE  EInv'
<1>1. /\ at \in [Thread -> Place] /\ "Main" \in Thread /\ "Updater" \in Thread
      /\ {"Loop", "ExitBegin", "ExitRequest", "Finish", "Gone"} \subseteq Place
  BY DEF EInv, CleanInv, Thread, Place
<1>2. UNCHANGED <<finishing, productOwned, presentOwned, productStopped, productLock, tray,
                  worker, workerExit>>
  BY WorkerStaysEnded
  DEF MainStep, HandleExit, Begin, RequestExit, EnterHook, updaterVars, workerVars
<1>3. \/ Go("Main", "Loop", "ExitBegin") \/ Go("Main", "ExitBegin", "ExitRequest")
      \/ Go("Main", "ExitRequest", "Loop") \/ Go("Main", "ExitRequest", "Finish")
      \/ Go("Main", "ExitRequest", "Gone")
      \/ Go("Updater", "Loop", "Finish") /\ worker = "NativeExit"
  BY DEF MainStep, HandleExit, Begin, RequestExit, EnterHook
<1>4. PICK t \in Thread, from \in {"Loop", "ExitBegin", "ExitRequest"},
           to \in {"Loop", "ExitBegin", "ExitRequest", "Finish", "Gone"} :
        Go(t, from, to) /\ (t = "Updater" => worker = "NativeExit")
  BY <1>1, <1>3
<1>5. /\ at' \in [Thread -> Place] /\ at[t] = from /\ at'[t] = to
      /\ \A s \in Thread \ {t} : at'[s] = at[s]
  BY <1>1, <1>4, Went
<1>6. CleanInv'
  BY <1>2, <1>4, <1>5 DEF EInv, CleanInv, Cleaning
<1>7. StopInv'
  BY <1>1, <1>2, <1>4, <1>5 DEF EInv, StopInv, Ended
<1> QED
  BY <1>6, <1>7 DEF EInv

(* ShutdownCoordinator::finish.                                            *)
LEMMA FinishingStep ==
  ASSUME EInv, NEW t \in Thread, FinishStep(t)
  PROVE  EInv'
<1>1. /\ at \in [Thread -> Place] /\ Free \notin Thread /\ "Updater" \in Thread
  BY DEF EInv, CleanInv, Free, Thread
<1>2. UNCHANGED <<worker, workerExit, tray>>
  BY WorkerStaysEnded
  DEF FinishStep, ClaimFinish, FinishAwaited, Begin, StopPresentation, JoinPresentation,
      StopProduct, JoinUpdater, StopRest, CompleteFinish, EndProcess, updaterVars, workerVars
<1> DEFINE Goes(from, to) ==
      /\ at' \in [Thread -> Place]
      /\ at[t] = from /\ at'[t] = to
      /\ \A s \in Thread \ {t} : at'[s] = at[s]
<1>3. \A from, to : to \in Place /\ Go(t, from, to) => Goes(from, to)
  BY <1>1, Went
<1>4. {"Finish", "AwaitFinish", "CleanBegin", "StopPresentation", "JoinPresentation",
       "StopProduct", "JoinUpdater", "StopRest", "Complete", "Finished", "Gone"}
        \subseteq Place
  BY DEF Place
<1>5. CASE ClaimFinish(t)
  <2>1. UNCHANGED <<productLock, productOwned, productStopped, presentOwned>>
    BY <1>5 DEF ClaimFinish
  <2>2. CASE finishing = "Idle" /\ finishing' = "Running" /\ Go(t, "Finish", "CleanBegin")
    <3>1. Goes("Finish", "CleanBegin")
      BY <1>3, <1>4, <2>2
    <3>2. \A s \in Thread : ~Cleaning(s)
      BY <2>2 DEF EInv, CleanInv
    <3>3. CleanInv'
      BY <2>1, <2>2, <3>1, <3>2 DEF EInv, CleanInv, Cleaning
    <3>4. StopInv'
      BY <1>1, <1>2, <2>1, <2>2, <3>1 DEF EInv, StopInv, Ended
    <3> QED
      BY <3>3, <3>4 DEF EInv
  <2>3. CASE finishing = "Running" /\ finishing' = "Running" /\ Go(t, "Finish", "AwaitFinish")
    <3>1. Goes("Finish", "AwaitFinish")
      BY <1>3, <1>4, <2>3
    <3> QED
      BY <1>1, <1>2, <2>1, <2>3, <3>1 DEF EInv, CleanInv, Cleaning, StopInv, Ended
  <2>4. CASE finishing = "Complete" /\ finishing' = "Complete" /\ Go(t, "Finish", "Finished")
    <3>1. Goes("Finish", "Finished")
      BY <1>3, <1>4, <2>4
    <3> QED
      BY <1>1, <1>2, <2>1, <2>4, <3>1 DEF EInv, CleanInv, Cleaning, StopInv, Ended
  <2> QED
    BY <1>5, <2>2, <2>3, <2>4 DEF ClaimFinish, EInv, CleanInv
<1>6. CASE FinishAwaited(t) \/ EndProcess(t)
  <2>1. UNCHANGED <<productLock, productOwned, productStopped, presentOwned, finishing>>
    BY <1>6 DEF FinishAwaited, EndProcess
  <2>2. finishing = "Complete"
    BY <1>6 DEF FinishAwaited, EndProcess, Go, EInv, StopInv
  <2>3. Goes("AwaitFinish", "Finished") \/ Goes("Finished", "Gone")
    BY <1>3, <1>4, <1>6 DEF FinishAwaited, EndProcess
  <2> QED
    BY <1>1, <1>2, <2>1, <2>2, <2>3 DEF EInv, CleanInv, Cleaning, StopInv, Ended
<1>7. CASE Begin(t, "CleanBegin", "StopPresentation")
  <2>1. UNCHANGED <<productLock, productOwned, productStopped, presentOwned, finishing>>
    BY <1>7 DEF Begin
  <2>2. Goes("CleanBegin", "StopPresentation")
    BY <1>3, <1>4, <1>7 DEF Begin
  <2> QED
    BY <1>1, <1>2, <2>1, <2>2 DEF EInv, CleanInv, Cleaning, StopInv, Ended
<1>8. CASE StopPresentation(t)
  <2>1. presentOwned
    BY <1>8 DEF StopPresentation, Go, EInv, CleanInv
  <2>2. UNCHANGED <<productLock, productOwned, productStopped, finishing>>
    BY <1>8 DEF StopPresentation
  <2>3. Goes("StopPresentation", "JoinPresentation")
    BY <1>3, <1>4, <1>8, <2>1 DEF StopPresentation
  <2>4. finishing = "Running" /\ \A s \in Thread \ {t} : ~Cleaning(s)
    BY <2>3 DEF EInv, CleanInv, Cleaning
  <2> QED
    BY <1>1, <1>2, <2>2, <2>3, <2>4 DEF EInv, CleanInv, Cleaning, StopInv, Ended
<1>9. CASE JoinPresentation(t)
  <2>1. UNCHANGED <<productLock, productOwned, productStopped, presentOwned, finishing>>
        /\ tray = "Stopped"
    BY <1>9 DEF JoinPresentation
  <2>2. Goes("JoinPresentation", "StopProduct")
    BY <1>3, <1>4, <1>9 DEF JoinPresentation
  <2> QED
    BY <1>1, <1>2, <2>1, <2>2 DEF EInv, CleanInv, Cleaning, StopInv, Ended
<1>10. CASE StopProduct(t)
  <2>1. productOwned /\ productLock = Free
    BY <1>10 DEF StopProduct, Go, EInv, CleanInv
  <2>2. UNCHANGED <<productStopped, presentOwned, finishing>> /\ productLock' = t
    BY <1>10, <2>1 DEF StopProduct
  <2>3. \/ Goes("StopProduct", "StopRest") /\ t = "Updater"
        \/ Goes("StopProduct", "JoinUpdater")
    BY <1>3, <1>4, <1>10, <2>1 DEF StopProduct
  <2>4. finishing = "Running" /\ \A s \in Thread \ {t} : ~Cleaning(s)
    BY <2>3 DEF EInv, CleanInv, Cleaning
  <2>5. CleanInv'
    BY <1>1, <1>2, <2>2, <2>3, <2>4 DEF EInv, CleanInv, Cleaning
  <2>6. t = "Updater" => Ended
    BY <2>3 DEF EInv, StopInv, Ended
  <2>7. StopInv'
    <3>1. tray = "Stopped" /\ \A s \in Thread \ {t} : at[s] \notin {"JoinUpdater", "StopRest"}
      BY <2>3, <2>4 DEF EInv, StopInv, Cleaning
    <3>2. CASE Goes("StopProduct", "JoinUpdater")
      BY <1>1, <1>2, <2>1, <2>2, <2>4, <3>1, <3>2 DEF EInv, StopInv, Ended
    <3>3. CASE Goes("StopProduct", "StopRest") /\ t = "Updater"
      BY <1>1, <1>2, <2>1, <2>2, <2>4, <2>6, <3>1, <3>3 DEF EInv, StopInv, Ended
    <3> QED
      BY <2>3, <3>2, <3>3
  <2> QED
    BY <2>5, <2>7 DEF EInv
<1>11. CASE JoinUpdater(t)
  <2>1. UNCHANGED <<productLock, productOwned, productStopped, presentOwned, finishing>>
        /\ Ended
    BY <1>11 DEF JoinUpdater, EInv, StopInv
  <2>2. Goes("JoinUpdater", "StopRest")
    BY <1>3, <1>4, <1>11 DEF JoinUpdater
  <2> QED
    BY <1>1, <1>2, <2>1, <2>2 DEF EInv, CleanInv, Cleaning, StopInv, Ended
<1>12. CASE StopRest(t)
  <2>1. UNCHANGED <<productOwned, presentOwned, finishing>>
        /\ productStopped' = TRUE /\ productLock' = Free
    BY <1>12 DEF StopRest
  <2>2. Goes("StopRest", "Complete")
    BY <1>3, <1>4, <1>12 DEF StopRest
  <2>3. \A s \in Thread \ {t} : ~Cleaning(s)
    BY <2>2 DEF EInv, CleanInv, Cleaning
  <2> QED
    BY <1>1, <1>2, <2>1, <2>2, <2>3 DEF EInv, CleanInv, Cleaning, StopInv, Ended
<1>13. CASE CompleteFinish(t)
  <2>1. UNCHANGED <<productLock, productOwned, productStopped, presentOwned>>
        /\ finishing' = "Complete"
    BY <1>13 DEF CompleteFinish
  <2>2. Goes("Complete", "Finished")
    BY <1>3, <1>4, <1>13 DEF CompleteFinish
  <2>3. \A s \in Thread \ {t} : ~Cleaning(s)
    BY <2>2 DEF EInv, CleanInv, Cleaning
  <2> QED
    BY <1>1, <1>2, <2>1, <2>2, <2>3 DEF EInv, CleanInv, Cleaning, StopInv, Ended
<1> QED
  BY <1>5, <1>6, <1>7, <1>8, <1>9, <1>10, <1>11, <1>12, <1>13 DEF FinishStep

LEMMA ExitStep ==
  ASSUME EInv, [Next]_vars PROVE EInv'
<1>1. CASE UNCHANGED vars
  BY <1>1
  DEF vars, exitVars, updaterVars, workerVars, EInv, CleanInv, Cleaning, StopInv, Ended
<1> QED
  BY <1>1, OthersStep, HandlerStep, FinishingStep DEF Next

(* Only macOS is restarted, and its installer never runs the hook.         *)
PlatformInv ==
  /\ restart \/ restarting => ~nativeExit
  /\ worker = "NativeExit" => nativeExit

RestartIsWaiting == \E n \in 1 .. Len(exitEvents) : exitEvents[n] = "Restart"

(* The event in hand is there to be looked at, and is a restart only if one*)
(* was requested.                                                          *)
EventsInv ==
  /\ exitEvents \in Seq({"Exit", "Restart"})
  /\ RestartIsWaiting => restarting
  /\ at["Main"] \in {"ExitBegin", "ExitRequest"} => exitEvents # <<>>

(* The presentation is the first thing that cleanup takes away.            *)
UntouchedInv ==
  presentOwned =>
    \/ finishing = "Idle"
    \/ \E t \in Thread : at[t] \in {"CleanBegin", "StopPresentation"}

LEMMA WorkerInstalls ==
  ASSUME WorkerStep
  PROVE  /\ restart' => restart \/ ~nativeExit
         /\ worker' = "NativeExit" => nativeExit
<1>1. CASE InstallReturns
  BY <1>1 DEF InstallReturns
<1>2. CASE InstallHandsOver
  BY <1>2 DEF InstallHandsOver
<1>3. CASE Activate \/ Toggle \/ BeginManualCheck \/ BeginInstallRequest
  BY <1>3
  DEF Activate, Toggle, BeginManualCheck, BeginInstallRequest, AttemptAutomatic, Settle,
      Receive, workerVars
<1>4. CASE HandleConfirmation \/ RefuseCommand \/ ExitWorker \/ PublishVerdict
  BY <1>4
  DEF HandleConfirmation, RefuseCommand, ExitWorker, PublishVerdict, Settle, Receive,
      workerVars
<1>5. CASE AutomaticCheckEnds \/ ManualCheckEnds \/ DownloadEnds \/ InstallFails
  BY <1>5
  DEF AutomaticCheckEnds, ManualCheckEnds, DownloadEnds, InstallFails, RetainFailedUpdate,
      Settle
<1> QED
  BY <1>1, <1>2, <1>3, <1>4, <1>5 DEF WorkerStep

(* Where the steps of finish lead.                                         *)
LEMMA FinishingGoes ==
  ASSUME CleanInv, NEW t \in Thread, FinishStep(t)
  PROVE  \/ EndProcess(t) /\ Go(t, "Finished", "Gone")
         \/ \E from, to \in {"Finish", "AwaitFinish", "CleanBegin", "StopPresentation",
                             "JoinPresentation", "StopProduct", "JoinUpdater", "StopRest",
                             "Complete", "Finished"} : Go(t, from, to)
<1>1. CASE ClaimFinish(t) \/ FinishAwaited(t)
  <2>1. \/ Go(t, "Finish", "CleanBegin") \/ Go(t, "Finish", "AwaitFinish")
        \/ Go(t, "Finish", "Finished") \/ Go(t, "AwaitFinish", "Finished")
    BY <1>1 DEF ClaimFinish, FinishAwaited, CleanInv
  <2> QED
    BY <2>1
<1>2. CASE EndProcess(t)
  BY <1>2 DEF EndProcess
<1>3. CASE Begin(t, "CleanBegin", "StopPresentation")
  BY <1>3 DEF Begin
<1>4. CASE StopPresentation(t) \/ JoinPresentation(t)
  <2>1. \/ Go(t, "StopPresentation", "JoinPresentation")
        \/ Go(t, "StopPresentation", "StopProduct")
        \/ Go(t, "JoinPresentation", "StopProduct")
    BY <1>4 DEF StopPresentation, JoinPresentation
  <2> QED
    BY <2>1
<1>5. CASE StopProduct(t) \/ JoinUpdater(t)
  <2>1. \/ Go(t, "StopProduct", "StopRest") \/ Go(t, "StopProduct", "JoinUpdater")
        \/ Go(t, "StopProduct", "Complete") \/ Go(t, "JoinUpdater", "StopRest")
    BY <1>5 DEF StopProduct, JoinUpdater
  <2> QED
    BY <2>1
<1>6. CASE StopRest(t) \/ CompleteFinish(t)
  BY <1>6 DEF StopRest, CompleteFinish
<1> QED
  BY <1>1, <1>2, <1>3, <1>4, <1>5, <1>6 DEF FinishStep

LEMMA PlatformStep ==
  ASSUME PlatformInv, [Next]_vars PROVE PlatformInv'
<1>1. nativeExit' = nativeExit
  BY DEF Next, vars, updaterVars
<1>2. restarting' => restarting \/ restart
  BY DEF Next, vars, exitVars, UpdaterStep, Quit, Restart, StartRender, TrayStep, ServeMenu,
      StopTray, MainStep, HandleExit, Begin, RequestExit, EnterHook, FinishStep,
      ClaimFinish, FinishAwaited, StopPresentation, JoinPresentation, StopProduct,
      JoinUpdater, StopRest, CompleteFinish, EndProcess
<1>3. CASE UNCHANGED <<restart, worker>>
  BY <1>1, <1>2, <1>3 DEF PlatformInv
<1>4. CASE WorkerStep
  BY <1>1, <1>2, <1>4, WorkerInstalls DEF PlatformInv
<1>5. WorkerStep \/ UNCHANGED <<restart, worker>>
  <2>1. ServiceStep \/ BeginUpdaterShutdown \/ StopUpdater => UNCHANGED <<restart, worker>>
    BY DEF ServiceStep, ToggleAutomaticChecks, CheckManually, RequestInstall, ClaimInstall,
        AnswerDialog, BeginUpdaterShutdown, StopUpdater, workerVars
  <2>2. UNCHANGED updaterVars => UNCHANGED <<restart, worker>>
    BY DEF updaterVars, workerVars
  <2> QED
    BY <2>1, <2>2, UpdaterSteps
<1> QED
  BY <1>3, <1>4, <1>5

LEMMA AppendEvent ==
  ASSUME NEW q \in Seq({"Exit", "Restart"}), NEW e \in {"Exit", "Restart"}
  PROVE  /\ Append(q, e) \in Seq({"Exit", "Restart"})
         /\ Append(q, e) # <<>>
         /\ \A n \in 1 .. Len(Append(q, e)) :
              Append(q, e)[n] = "Restart" =>
                e = "Restart" \/ \E m \in 1 .. Len(q) : q[m] = "Restart"
<1> DEFINE r == Append(q, e)
<1>1. /\ r \in Seq({"Exit", "Restart"}) /\ Len(q) \in Nat /\ Len(r) = Len(q) + 1
      /\ \A n \in 1 .. Len(q) : r[n] = q[n]
      /\ r[Len(q) + 1] = e
  OBVIOUS
<1>2. 1 .. Len(r) = (1 .. Len(q)) \cup {Len(q) + 1} /\ r # <<>>
  BY <1>1
<1> HIDE DEF r
<1> QED
  BY <1>1, <1>2 DEF r

LEMMA TailEvent ==
  ASSUME NEW q \in Seq({"Exit", "Restart"}), q # <<>>
  PROVE  /\ Tail(q) \in Seq({"Exit", "Restart"})
         /\ \A n \in 1 .. Len(Tail(q)) : n + 1 \in 1 .. Len(q) /\ Tail(q)[n] = q[n + 1]
         /\ 1 \in 1 .. Len(q) /\ Head(q) = q[1]
OBVIOUS

LEMMA EventsStep ==
  ASSUME EInv, EventsInv, [Next]_vars PROVE EventsInv'
<1> USE DEF EventsInv
<1>1. at \in [Thread -> Place] /\ "Main" \in Thread /\ "Updater" \in Thread
  BY DEF EInv, CleanInv, Thread
<1>2. ASSUME NEW e \in {"Exit", "Restart"}, exitEvents' = Append(exitEvents, e),
             e = "Restart" => restarting', restarting => restarting', at' = at
      PROVE  EventsInv'
  BY <1>2, AppendEvent DEF RestartIsWaiting
<1>3. ASSUME UNCHANGED <<exitEvents, restarting>>,
             at'["Main"] \in {"ExitBegin", "ExitRequest"} =>
               at["Main"] \in {"ExitBegin", "ExitRequest"} \/ exitEvents # <<>>
      PROVE  EventsInv'
  BY <1>3 DEF RestartIsWaiting
<1>4. CASE Quit
  BY <1>2, <1>4 DEF Quit
<1>5. CASE Restart
  BY <1>2, <1>5 DEF Restart
<1>6. CASE StopTray
  <2>1. at' = at /\ restarting' = restarting
        /\ (exitEvents' = exitEvents \/ exitEvents' = Append(exitEvents, "Exit"))
    BY <1>6 DEF StopTray
  <2> QED
    BY <1>2, <1>3, <2>1
<1>7. CASE RequestExit
  <2>1. exitEvents' = Tail(exitEvents) /\ restarting' = restarting /\ at["Main"] = "ExitRequest"
    BY <1>7 DEF RequestExit, Go
  <2>2. at'["Main"] \in {"Loop", "Finish", "Gone"}
    BY <1>1, <1>7 DEF RequestExit, Go
  <2>3. exitEvents # <<>>
    BY <2>1
  <2> QED
    BY <2>1, <2>2, <2>3, TailEvent DEF RestartIsWaiting
<1>8. CASE HandleExit
  BY <1>3, <1>8 DEF HandleExit
<1>9. CASE Begin("Main", "ExitBegin", "ExitRequest")
  BY <1>3, <1>9 DEF Begin, Go
<1>10. CASE EnterHook
  <2>1. at'["Main"] = at["Main"] /\ UNCHANGED <<exitEvents, restarting>>
    BY <1>1, <1>10 DEF EnterHook, Go
  <2> QED
    BY <1>3, <2>1
<1>11. ASSUME NEW t \in Thread, FinishStep(t) PROVE EventsInv'
  <2>1. UNCHANGED <<exitEvents, restarting>>
    BY <1>11
    DEF FinishStep, ClaimFinish, FinishAwaited, Begin, StopPresentation, JoinPresentation,
        StopProduct, JoinUpdater, StopRest, CompleteFinish, EndProcess
  <2>2. PICK from, to \in Place \ {"ExitBegin", "ExitRequest"} : Go(t, from, to)
    BY <1>11, FinishingGoes DEF Place, EInv
  <2>3. at'["Main"] \in {"ExitBegin", "ExitRequest"} => at'["Main"] = at["Main"]
    BY <1>1, <2>2, Went
  <2> QED
    BY <1>3, <2>1, <2>3
<1>12. CASE UpdaterStep \/ StartRender \/ ServeMenu \/ UNCHANGED vars
  <2>1. UNCHANGED <<at, exitEvents, restarting>>
    BY <1>12 DEF UpdaterStep, StartRender, ServeMenu, vars, exitVars
  <2> QED
    BY <1>3, <2>1
<1> QED
  BY <1>4, <1>5, <1>6, <1>7, <1>8, <1>9, <1>10, <1>11, <1>12 DEF Next, TrayStep, MainStep

LEMMA UntouchedStep ==
  ASSUME EInv, UntouchedInv, [Next]_vars PROVE UntouchedInv'
<1>1. at \in [Thread -> Place] /\ "Main" \in Thread /\ "Updater" \in Thread
  BY DEF EInv, CleanInv, Thread
<1>2. ASSUME NEW t \in Thread, NEW from, NEW to \in Place, Go(t, from, to),
             from \notin {"CleanBegin", "StopPresentation"},
             UNCHANGED <<presentOwned, finishing>>
      PROVE  UntouchedInv'
  <2>1. \A s \in Thread : at[s] \in {"CleanBegin", "StopPresentation"} => at'[s] = at[s]
    BY <1>1, <1>2, Went
  <2> QED
    BY <1>2, <2>1 DEF UntouchedInv
<1>3. ASSUME UNCHANGED <<at, presentOwned, finishing>> PROVE UntouchedInv'
  BY <1>3 DEF UntouchedInv
<1>4. CASE UpdaterStep \/ Quit \/ Restart \/ StartRender \/ TrayStep \/ UNCHANGED vars
  BY <1>3, <1>4
  DEF UpdaterStep, Quit, Restart, StartRender, TrayStep, ServeMenu, StopTray, vars, exitVars
<1>5. CASE MainStep \/ EnterHook
  <2>1. UNCHANGED <<presentOwned, finishing>>
    BY <1>5 DEF MainStep, HandleExit, Begin, RequestExit, EnterHook
  <2>2. PICK t \in Thread, from \in {"Loop", "ExitBegin", "ExitRequest"}, to \in Place :
          Go(t, from, to)
    BY <1>1, <1>5 DEF MainStep, HandleExit, Begin, RequestExit, EnterHook, Place
  <2> QED
    BY <1>2, <2>1, <2>2
<1>6. ASSUME NEW t \in Thread, FinishStep(t) PROVE UntouchedInv'
  <2>1. CASE ClaimFinish(t)
    <3>1. CASE finishing = "Idle" /\ Go(t, "Finish", "CleanBegin")
      <4>1. at'[t] = "CleanBegin"
        BY <1>1, <3>1, Went DEF Place
      <4> QED
        BY <4>1 DEF UntouchedInv
    <3>2. CASE finishing # "Idle"
      BY <1>2, <2>1, <3>2 DEF ClaimFinish, Place, EInv, CleanInv
    <3> QED
      BY <2>1, <3>1, <3>2 DEF ClaimFinish
  <2>2. CASE Begin(t, "CleanBegin", "StopPresentation")
    <3>1. at'[t] = "StopPresentation"
      BY <1>1, <2>2, Went DEF Begin, Place
    <3> QED
      BY <3>1 DEF UntouchedInv
  <2>3. CASE StopPresentation(t)
    BY <2>3 DEF StopPresentation, UntouchedInv, Go, EInv, CleanInv
  <2>4. CASE CompleteFinish(t)
    <3>1. Go(t, "Complete", "Finished") /\ UNCHANGED presentOwned
      BY <2>4 DEF CompleteFinish
    <3>2. at[t] = "Complete" /\ finishing = "Running"
      BY <3>1 DEF Go, EInv, CleanInv, Cleaning
    <3>3. \A s \in Thread : at[s] \notin {"CleanBegin", "StopPresentation"}
      BY <3>2 DEF EInv, CleanInv, Cleaning
    <3> QED
      BY <3>1, <3>2, <3>3 DEF UntouchedInv
  <2>5. CASE FinishAwaited(t) \/ EndProcess(t) \/ JoinPresentation(t) \/ JoinUpdater(t)
             \/ StopRest(t)
    BY <1>2, <2>5
    DEF FinishAwaited, EndProcess, JoinPresentation, JoinUpdater, StopRest, Place
  <2>6. CASE StopProduct(t)
    BY <1>2, <2>6 DEF StopProduct, Place
  <2> QED
    BY <1>6, <2>1, <2>2, <2>3, <2>4, <2>5, <2>6 DEF FinishStep
<1> QED
  BY <1>4, <1>5, <1>6 DEF Next

(* Where the process ends, it has been cleaned up, or is restarted and has *)
(* not been touched.                                                       *)
LEMMA EndingStep ==
  ASSUME EInv, PlatformInv, EventsInv, UntouchedInv, Alive, [Next]_vars, ~Alive'
  PROVE  EndsCleanedUp'
<1>1. at \in [Thread -> Place] /\ "Main" \in Thread /\ "Updater" \in Thread
      /\ Thread = {"Main", "Updater"}
  BY DEF EInv, CleanInv, Thread
<1>2. CASE RequestExit
  <2>1. /\ presentOwned /\ Head(exitEvents) = "Restart" /\ at["Main"] = "ExitRequest"
        /\ UNCHANGED <<presentOwned, productOwned, finishing, restarting, worker>>
    <3>1. at["Main"] = "ExitRequest" /\ UNCHANGED <<presentOwned, productOwned, finishing,
                                                    restarting, worker>>
      BY <1>2 DEF RequestExit, Go, updaterVars, workerVars
    <3>2. at'["Main"] = "Gone"
      BY <1>1, <1>2 DEF Alive, RequestExit, Go
    <3> QED
      BY <1>1, <1>2, <3>1, <3>2 DEF RequestExit, Go
  <2>2. restarting
    BY <2>1, TailEvent DEF EventsInv, RestartIsWaiting
  <2>3. ~nativeExit /\ at["Updater"] = "Loop"
    BY <2>2 DEF PlatformInv, EInv, StopInv
  <2>4. finishing = "Idle" /\ productOwned
    BY <1>1, <2>1, <2>3 DEF UntouchedInv, EInv, CleanInv
  <2>5. nativeExit' = nativeExit
    BY DEF Next, vars, updaterVars
  <2> QED
    BY <2>1, <2>2, <2>3, <2>4, <2>5 DEF EndsCleanedUp, RestartOvertakesCleanup
<1>3. ASSUME NEW t \in Thread, EndProcess(t) PROVE EndsCleanedUp'
  <2>1. finishing = "Complete" /\ UNCHANGED <<productStopped, tray, finishing>>
    BY <1>3 DEF EndProcess, Go, EInv, StopInv
  <2> QED
    BY <2>1 DEF EInv, StopInv, EndsCleanedUp
<1>4. CASE UNCHANGED at
  BY <1>4 DEF Alive
<1>5. ASSUME NEW t \in Thread, NEW from, NEW to \in Place \ {"Gone"}, Go(t, from, to)
      PROVE  Alive'
  BY <1>1, <1>5, Went DEF Alive
<1>6. CASE HandleExit \/ Begin("Main", "ExitBegin", "ExitRequest") \/ EnterHook
  BY <1>1, <1>5, <1>6 DEF HandleExit, Begin, EnterHook, Place
<1>7. ASSUME NEW t \in Thread, FinishStep(t), ~EndProcess(t) PROVE Alive'
  <2>1. PICK from, to \in Place \ {"Gone"} : Go(t, from, to)
    BY <1>7, FinishingGoes DEF Place, EInv
  <2> QED
    BY <1>5, <2>1
<1>8. CASE UpdaterStep \/ Quit \/ Restart \/ StartRender \/ TrayStep \/ UNCHANGED vars
  BY <1>4, <1>8
  DEF UpdaterStep, Quit, Restart, StartRender, TrayStep, ServeMenu, StopTray, vars, exitVars
<1> QED
  BY <1>2, <1>3, <1>6, <1>7, <1>8 DEF Next, MainStep

LEMMA UpdaterIsFirst ==
  ASSUME EInv PROVE UpdaterStopsFirst
<1>1. ASSUME NEW t \in Thread, at[t] \in {"StopRest", "Complete"}, productLock # Free
      PROVE  productLock = t /\ Ended
  <2>1. PICK s \in Thread : productLock = s /\ at[s] \in {"JoinUpdater", "StopRest"}
    BY <1>1 DEF EInv, StopInv
  <2>2. s = t
    BY <1>1, <2>1 DEF EInv, CleanInv, Cleaning
  <2> QED
    BY <1>1, <2>1, <2>2 DEF EInv, StopInv
<1> QED
  BY <1>1 DEF UpdaterStopsFirst, Ended

-----------------------------------------------------------------------------

LEMMA ExitInvariant == Spec => [](UInv /\ EInv)
<1>1. Init => UInv /\ EInv
  BY UpdaterStarts, ExitStarts DEF Init
<1>2. UInv /\ EInv /\ [Next]_vars => (UInv /\ EInv)'
  BY UpdaterInProcess, ExitStep
<1> QED
  BY <1>1, <1>2, PTL DEF Spec

(* For any versions and any number of quits: whichever thread shuts down,  *)
(* and however installing, quitting and restarting meet, the process ends  *)
(* after the product and the tray have stopped, or it is restarted on macOS*)
(* and nothing of it has been cleaned up; never in between (main.rs,       *)
(* "finish").                                                              *)
THEOREM ProcessEndsCleanedUp == Spec => []EndsCleanedUp
<1> DEFINE RInv == PlatformInv /\ EventsInv /\ UntouchedInv
<1>1. Init => RInv /\ EndsCleanedUp
  BY DEF Init, UpdaterInit, PlatformInv, EventsInv, RestartIsWaiting, UntouchedInv,
         EndsCleanedUp, Alive, Thread
<1>2. EInv /\ RInv /\ [Next]_vars => RInv'
  BY PlatformStep, EventsStep, UntouchedStep
<1>3. EInv /\ RInv /\ EndsCleanedUp /\ [Next]_vars => EndsCleanedUp'
  <2> SUFFICES ASSUME EInv, RInv, EndsCleanedUp, [Next]_vars PROVE EndsCleanedUp'
    OBVIOUS
  <2>1. CASE ~Alive
    <3>1. UNCHANGED vars
      BY <2>1 DEF Next
    <3> QED
      BY <3>1 DEF vars, exitVars, updaterVars, EndsCleanedUp, RestartOvertakesCleanup, Alive
  <2>2. CASE Alive /\ Alive'
    BY <2>2 DEF EndsCleanedUp
  <2>3. CASE Alive /\ ~Alive'
    BY <2>3, EndingStep
  <2> QED
    BY <2>1, <2>2, <2>3
<1> HIDE DEF RInv
<1> QED
  BY <1>1, <1>2, <1>3, ExitInvariant, PTL DEF Spec

(* The product's shutdown is one thread's, and it comes to what is below   *)
(* the updater only when the updater's worker is at work no more.          *)
THEOREM UpdaterIsStoppedFirst == Spec => []UpdaterStopsFirst
BY ExitInvariant, UpdaterIsFirst, PTL

(* The claim is held exactly as long as there is an operation, with the    *)
(* tray, the dialog or the worker, and there is never a second one         *)
(* (updater.rs, "claimed").                                                *)
THEOREM OneUpdaterOperation == Spec => []OneOperationAtATime
<1>1. UInv => OneOperationAtATime
  BY OneIsOneOperation DEF UInv
<1> QED
  BY <1>1, ExitInvariant, PTL

(* What is installed is what the user agreed to, although the answer does  *)
(* not say what it is about.                                               *)
THEOREM InstalledAsAgreed == Spec => []ConsentIsForThisUpdate
BY ExitInvariant, OffersAndConsent, PTL

(* What is offered is what the worker can install.                         *)
THEOREM OffersAreHeld == Spec => []OfferIsHeld
BY ExitInvariant, OffersAndConsent, PTL

-----------------------------------------------------------------------------

LEMMA AttemptKeepsSchedule ==
  ASSUME NEW wanted, AttemptAutomatic(wanted), wanted, pending = NoUpdate, nextAutomatic
  PROVE  nextAutomatic'
BY DEF AttemptAutomatic

(* The timer is given up only when automatic checks are switched off or    *)
(* there is an update to install.                                          *)
LEMMA ScheduleStep ==
  ASSUME [Next]_vars, nextAutomatic, ~nextAutomatic'
  PROVE  ~enabled' \/ pending' # NoUpdate
<1>1. CASE Activate
  BY <1>1, AttemptKeepsSchedule DEF Activate
<1>2. CASE Toggle
  BY <1>2, AttemptKeepsSchedule DEF Toggle
<1>3. CASE AutomaticCheckEnds
  BY <1>3, UpdaterAssumption DEF AutomaticCheckEnds
<1>4. CASE Activate \/ Toggle \/ AutomaticCheckEnds \/ nextAutomatic' \/ UNCHANGED nextAutomatic
  BY <1>1, <1>2, <1>3, <1>4
<1>5. WorkerStep =>
        Activate \/ Toggle \/ AutomaticCheckEnds \/ nextAutomatic' \/ UNCHANGED nextAutomatic
  BY DEF WorkerStep, BeginManualCheck, BeginInstallRequest, HandleConfirmation,
         RefuseCommand, ExitWorker, PublishVerdict, ManualCheckEnds, DownloadEnds,
         InstallFails, InstallReturns, InstallHandsOver, workerVars
<1>6. ServiceStep \/ BeginUpdaterShutdown \/ StopUpdater \/ UNCHANGED updaterVars
        => UNCHANGED nextAutomatic
  BY DEF ServiceStep, ToggleAutomaticChecks, CheckManually, RequestInstall, ClaimInstall,
         AnswerDialog, BeginUpdaterShutdown, StopUpdater, workerVars, updaterVars
<1>7. ServiceStep \/ WorkerStep \/ BeginUpdaterShutdown \/ StopUpdater \/ UNCHANGED updaterVars
  BY UpdaterSteps
<1> QED
  BY <1>4, <1>5, <1>6, <1>7

(* For any versions and commands: no operation, failure or refusal loses   *)
(* the next automatic check.                                               *)
THEOREM ScheduleIsNeverLost == Spec => ScheduleIsKept
<1>1. [Next]_vars =>
        [nextAutomatic /\ ~nextAutomatic' => ~enabled' \/ pending' # NoUpdate]_updaterVars
  BY ScheduleStep
<1> QED
  BY <1>1, PTL DEF Spec, ScheduleIsKept

=============================================================================
