-------------------------------- MODULE Logp --------------------------------
(***************************************************************************)
(* The logger core of logp (core.go, selective.go, typedloggercore.go,     *)
(* logger.go, level.go, config.go, configure/logging.go).                  *)
(*                                                                         *)
(* A configuration builds a tree of cores and stores it, with its level,   *)
(* in a global pointer.  Loggers are made from the configuration that is   *)
(* current and keep its tree.  A leaf of the tree writes to a sink when    *)
(* the level it shares with the configuration allows it; inner cores       *)
(* choose among their children.  Goroutines configure, set the level,      *)
(* make loggers, log through them and close them.                          *)
(*                                                                         *)
(* A log entry is its level, the name of its logger and the value its      *)
(* fields give to the key of the typed output; encoding is left out, and   *)
(* so is Sync, which changes none of this state.                           *)
(***************************************************************************)
EXTENDS Integers, Sequences, SequencesExt, FiniteSets

CONSTANTS
  Goroutines,     \* the goroutines that use the package
  Calls,          \* the calls that configure the logger
  OutputLevel,    \* the fixed level of every core that callers pass in
  Names,          \* the names loggers are given
  SetLevels,      \* the levels given to SetLevel
  Entries,        \* what is logged: records of level and type
  MaxConfigures,  \* how often the logger is configured
  MaxCalls        \* how many calls are made in all

VARIABLES
  cells,     \* the atomic levels, one per configuration
  built,     \* the configurations that were stored, oldest first
  current,   \* the configuration _log points to
  open,      \* the log files that are open
  golog,     \* where the log package of Go writes
  thread,    \* what every goroutine is doing
  calls      \* the number of calls so far

vars == <<cells, built, current, open, golog, thread, calls>>

DebugLevel    == -1
InfoLevel     == 0
WarnLevel     == 1
ErrorLevel    == 2
CriticalLevel == 3

-----------------------------------------------------------------------------
(* Configurations.                                                         *)

\* Critical exists in configurations only.
ZapLevel(l) == IF l = CriticalLevel THEN ErrorLevel ELSE l

\* What DefaultConfig and DefaultEventConfig choose; "to" is the set of the
\* outputs that are switched on.
DefaultConfig(env) ==
  [level |-> InfoLevel, selectors |-> {}, environment |-> env,
   to |-> IF env \in {"container", "systemd"} THEN {"stderr"} ELSE {"files"}]

DefaultEventConfig(env) == [DefaultConfig(env) EXCEPT !.to = {"files"}]

\* The command line: -e, -v and the selectors of -d.
applyFlags(cfg, flags) ==
  LET to    == cfg.to \cup (IF flags.toStderr THEN {"stderr"} ELSE {})
      level == IF flags.debugSelectors # {} THEN DebugLevel
               ELSE IF flags.verbose /\ cfg.level > InfoLevel THEN InfoLevel
               ELSE cfg.level
      loser == IF "files" \notin DefaultConfig(cfg.environment).to
               THEN "stderr" ELSE "files"
  IN  [cfg EXCEPT !.level = level, !.selectors = @ \cup flags.debugSelectors,
                  !.to = IF {"files", "stderr"} \subseteq to
                         THEN to \ {loser} ELSE to]

\* The configuration of the typed output follows the default one.
EventConfig(cfg, typedCfg) ==
  [typedCfg EXCEPT !.level = cfg.level, !.selectors = cfg.selectors]

\* The output createLogOutput chooses: the first that is switched on, or the
\* one of the environment.
Precedence == <<"discard", "stderr", "syslog", "eventlog", "files">>

Destination(cfg) ==
  LET first == SelectInSeq(Precedence, LAMBDA d : d \in cfg.to)
  IN  IF first # 0 THEN Precedence[first]
      ELSE IF cfg.environment \in {"systemd", "container"} THEN "stderr"
      ELSE IF cfg.environment \in {"macos", "windows"} THEN "files"
      ELSE "none"

\* Selectors are used at debug level only.
Selectors(cfg) == IF cfg.level <= DebugLevel THEN cfg.selectors ELSE {}

-----------------------------------------------------------------------------
(* Cores.  A selector, like the name of a logger, is a sequence of         *)
(* segments.                                                               *)

All == <<"*">>

\* A sink is the destination, the configuration that made it and which of
\* its two outputs it is.  Cores that callers pass in have the destination
\* "caller" and a name.
Sink(destination, cell, which) == <<destination, cell, which>>

IsFile(sink) == sink[1] = "files"

\* closer: the leaf is a closerCore; context: what With added for the key
\* of the typed output.
Leaf(sink, cell, closer) ==
  [kind |-> "leaf", sink |-> sink, cell |-> cell, closer |-> closer, context |-> "none"]

makeOutput(destination, cell, which) ==
  IF destination = "none" THEN [kind |-> "nop"]
  ELSE Leaf(Sink(destination, cell, which), cell,
            destination \in {"syslog", "eventlog", "files"})

selectiveWrapper(core, selectors) ==
  IF selectors = {} THEN core
  ELSE [kind |-> "selective", selectors |-> selectors, core |-> core]

newMultiCore(cores) == [kind |-> "multi", cores |-> cores]

typedLoggerCore(default, typed) ==
  [kind |-> "typed", default |-> default, typed |-> typed]

LevelOf(leaf) ==
  IF leaf.sink[1] = "caller" THEN OutputLevel[leaf.sink[3]] ELSE cells[leaf.cell]

\* The methods of the cores.
RECURSIVE Enabled(_, _)
Enabled(core, level) ==
  CASE core.kind = "nop"       -> FALSE
    [] core.kind = "leaf"      -> level >= LevelOf(core)
    [] core.kind = "selective" -> Enabled(core.core, level)
    [] core.kind = "multi"     -> \E i \in DOMAIN core.cores : Enabled(core.cores[i], level)
    [] core.kind = "typed"     -> Enabled(core.default, level)

\* Mutation: the new core forgets how to close its output.
LeafWithNoCloser(leaf, type) == [leaf EXCEPT !.context = type, !.closer = FALSE]

LeafWith(leaf, type) == [leaf EXCEPT !.context = type]

RECURSIVE With(_, _)
With(core, type) ==
  CASE core.kind = "nop"       -> core
    [] core.kind = "leaf"      -> LeafWith(core, type)
    [] core.kind = "selective" -> selectiveWrapper(With(core.core, type), core.selectors)
    [] core.kind = "multi"     ->
         newMultiCore([i \in DOMAIN core.cores |-> With(core.cores[i], type)])
    [] core.kind = "typed"     ->
         typedLoggerCore(With(core.default, type), With(core.typed, type))

\* The cores that Check adds to the checked entry.
RECURSIVE Check(_, _)
Check(core, entry) ==
  CASE core.kind = "multi"     ->
         FlattenSeq([i \in DOMAIN core.cores |-> Check(core.cores[i], entry)])
    [] core.kind = "selective" ->
         IF /\ Enabled(core, entry.level)
            /\ entry.level = DebugLevel =>
                 All \in core.selectors \/ entry.name \in core.selectors
         THEN <<core>> ELSE <<>>
    [] OTHER -> IF Enabled(core, entry.level) THEN <<core>> ELSE <<>>

\* The leaves that Write of a core reaches.
RECURSIVE Write(_, _)
Write(core, entry) ==
  CASE core.kind = "nop"       -> <<>>
    [] core.kind = "leaf"      -> <<core>>
    [] core.kind = "selective" -> Write(core.core, entry)
    [] core.kind = "multi"     ->
         FlattenSeq([i \in DOMAIN core.cores |-> Write(core.cores[i], entry)])
    [] core.kind = "typed"     ->
         Write(IF entry.type = "event" THEN core.typed ELSE core.default, entry)

\* The sinks that Close of a core closes.
RECURSIVE Closed(_)
Closed(core) ==
  CASE core.kind = "nop"       -> {}
    [] core.kind = "leaf"      -> IF core.closer THEN {core.sink} ELSE {}
    [] core.kind = "selective" -> Closed(core.core)
    [] core.kind = "multi"     -> UNION {Closed(core.cores[i]) : i \in DOMAIN core.cores}
    [] core.kind = "typed"     -> Closed(core.default) \cup Closed(core.typed)

-----------------------------------------------------------------------------
(* What a call that configures builds.                                     *)

CallerCore(name) == Leaf(Sink("caller", 0, name), 0, FALSE)

Observed(call) == "observer" \in call.cfg.to

DefaultOutput(call, cell) ==
  IF Observed(call) THEN Leaf(Sink("observer", cell, "default"), cell, FALSE)
  ELSE makeOutput(Destination(call.cfg), cell, "default")

\* Mutation: selectors are forgotten.
createSinkUnselective(call, cell) ==
  newMultiCore([i \in DOMAIN call.outputs |-> CallerCore(call.outputs[i])] \o
               <<DefaultOutput(call, cell)>>)

createSink(call, cell) ==
  newMultiCore([i \in DOMAIN call.outputs |-> CallerCore(call.outputs[i])] \o
               <<selectiveWrapper(DefaultOutput(call, cell), Selectors(call.cfg))>>)

TypedOutput(call, cell) ==
  IF call.fn = "ConfigureWithTypedOutput" /\ Observed(call)
  THEN createSink(call, cell)
  ELSE makeOutput(Destination(call.typedCfg), cell, "typed")

IsTyped(call) == call.fn \in {"ConfigureWithTypedOutput", "ConfigureWithTypedOutputLocal"}

HasCore(call) == call.fn \in {"ConfigureWithCore", "ConfigureWithCoreLocal"}

Root(call, cell) ==
  IF HasCore(call) THEN selectiveWrapper(CallerCore(call.core), Selectors(call.cfg))
  ELSE IF IsTyped(call)
  THEN selectiveWrapper(typedLoggerCore(createSink(call, cell), TypedOutput(call, cell)),
                        Selectors(call.cfg))
  ELSE createSink(call, cell)

\* The files of a tree, opened when it is built.
RECURSIVE Files(_)
Files(core) ==
  CASE core.kind = "nop"       -> {}
    [] core.kind = "leaf"      -> IF IsFile(core.sink) THEN {core.sink} ELSE {}
    [] core.kind = "selective" -> Files(core.core)
    [] core.kind = "multi"     -> UNION {Files(core.cores[i]) : i \in DOMAIN core.cores}
    [] core.kind = "typed"     -> Files(core.default) \cup Files(core.typed)

\* Creating an output may fail.
MayFail(destination) == destination \in {"syslog", "eventlog", "files"}

GologAfter(call) ==
  IF HasCore(call) THEN golog
  ELSE IF Selectors(call.cfg) \cap {All, <<"stdlog">>} # {} THEN "stderr" ELSE "discard"

-----------------------------------------------------------------------------
(* The goroutines.                                                         *)

NoCall  == CHOOSE call \in Calls : TRUE
NoEntry == [level |-> InfoLevel, type |-> "none", name |-> <<>>]

Idle(logger) ==
  [pc |-> "idle", logger |-> logger, entry |-> NoEntry, level |-> InfoLevel,
   to |-> <<>>, cell |-> 0, call |-> NoCall]

Nop == [root |-> [kind |-> "nop"], cell |-> 1, call |-> NoCall]

LoggerOf(b) == [core |-> built[b].root, name |-> <<>>, config |-> b]

Init ==
  /\ cells = <<InfoLevel>>
  /\ built = <<Nop>>
  /\ current = 1
  /\ open = {}
  /\ golog = "stderr"
  /\ thread = [t \in Goroutines |->
                 Idle([core |-> Nop.root, name |-> <<>>, config |-> 1])]
  /\ calls = 0

\* A call starts.
Free(t) ==
  /\ thread[t].pc = "idle"
  /\ calls < MaxCalls
  /\ calls' = calls + 1

Return(t, logger) == thread' = [thread EXCEPT ![t] = Idle(logger)]

Continue(t, pc) == thread' = [thread EXCEPT ![t].pc = pc]

\* The start of a call that configures: its level is created first.
Configuring(t, call) ==
  /\ Free(t)
  /\ Len(cells) <= MaxConfigures
  /\ cells' = Append(cells, ZapLevel(call.cfg.level))

\* The default output cannot be created: nothing else was changed.
SinkFails(t, call) ==
  /\ Configuring(t, call)
  /\ ~HasCore(call) /\ ~Observed(call) /\ MayFail(Destination(call.cfg))
  /\ Return(t, thread[t].logger)
  /\ UNCHANGED <<built, current, open, golog>>

\* The typed output cannot be created: the default output stays as it is.
TypedFails(t, call) ==
  /\ Configuring(t, call)
  /\ IsTyped(call) /\ MayFail(Destination(call.typedCfg))
  /\ call.fn = "ConfigureWithTypedOutput" => ~Observed(call)
  /\ open' = open \cup Files(createSink(call, Len(cells) + 1))
  /\ golog' = GologAfter(call)
  /\ Return(t, thread[t].logger)
  /\ UNCHANGED <<built, current>>

Configure(t, call) ==
  /\ Configuring(t, call)
  /\ open' = open \cup Files(Root(call, Len(cells) + 1))
  /\ golog' = GologAfter(call)
  /\ thread' = [thread EXCEPT ![t].pc = "store", ![t].cell = Len(cells) + 1, ![t].call = call]
  /\ UNCHANGED <<built, current>>

\* The Local functions also return a logger of their own.
storeLogger(t) ==
  /\ thread[t].pc = "store"
  /\ LET call == thread[t].call
         cell == thread[t].cell
         new  == [root |-> Root(call, cell), cell |-> cell, call |-> call]
     IN  /\ built' = Append(built, new)
         /\ current' = Len(built) + 1
         /\ Return(t, IF call.fn \in {"ConfigureWithCoreLocal", "ConfigureWithTypedOutputLocal"}
                      THEN [core |-> new.root, name |-> <<>>, config |-> Len(built) + 1]
                      ELSE thread[t].logger)
  /\ UNCHANGED <<calls, cells, open, golog>>

\* SetLevel loads the configuration and then sets its level.
SetLevel(t) ==
  /\ Free(t)
  /\ thread' = [thread EXCEPT ![t].pc = "set", ![t].cell = built[current].cell]
  /\ UNCHANGED <<cells, built, current, open, golog>>

SetLevelStore(t, level) ==
  /\ thread[t].pc = "set"
  /\ cells' = [cells EXCEPT ![thread[t].cell] = level]
  /\ Return(t, thread[t].logger)
  /\ UNCHANGED <<calls, built, current, open, golog>>

\* L and NewLogger start from the current configuration, Named and With from
\* a logger.
NewLogger(t, name) ==
  /\ Free(t)
  /\ Return(t, [LoggerOf(current) EXCEPT !.name = name])
  /\ UNCHANGED <<cells, built, current, open, golog>>

Named(t, name) ==
  /\ Free(t)
  /\ Return(t, [thread[t].logger EXCEPT !.name = @ \o name])
  /\ UNCHANGED <<cells, built, current, open, golog>>

WithType(t) ==
  /\ Free(t)
  /\ Return(t, [thread[t].logger EXCEPT !.core = With(@, "event")])
  /\ UNCHANGED <<cells, built, current, open, golog>>

\* A logging call looks whether the level is enabled before it makes the
\* entry, then checks the entry and writes it.
Log(t, e) ==
  /\ Free(t)
  /\ LET logger == thread[t].logger
     IN  thread' = [thread EXCEPT
           ![t].pc = IF Enabled(logger.core, e.level) THEN "check" ELSE "logged",
           ![t].entry = [level |-> e.level, type |-> e.type, name |-> logger.name],
           ![t].level = cells[built[logger.config].cell]]
  /\ UNCHANGED <<cells, built, current, open, golog>>

LogCheck(t) ==
  /\ thread[t].pc = "check"
  /\ LET logger == thread[t].logger
     IN  thread' = [thread EXCEPT
           ![t].pc = "write",
           ![t].to = Check(logger.core, thread[t].entry),
           ![t].level = cells[built[logger.config].cell]]
  /\ UNCHANGED <<calls, cells, built, current, open, golog>>

\* A closed rotator opens its file again.
LogWrite(t) ==
  /\ thread[t].pc = "write"
  /\ LET cores  == thread[t].to
         leaves == FlattenSeq([i \in DOMAIN cores |-> Write(cores[i], thread[t].entry)])
     IN  /\ thread' = [thread EXCEPT
              ![t].pc = "logged", ![t].to = [i \in DOMAIN leaves |-> leaves[i].sink]]
         /\ open' = open \cup {s \in {leaves[i].sink : i \in DOMAIN leaves} : IsFile(s)}
  /\ UNCHANGED <<calls, cells, built, current, golog>>

Close(t) ==
  /\ Free(t)
  /\ open' = open \ Closed(thread[t].logger.core)
  /\ Continue(t, "closed")
  /\ UNCHANGED <<cells, built, current, golog>>

Finish(t) ==
  /\ thread[t].pc \in {"logged", "closed"}
  /\ Return(t, thread[t].logger)
  /\ UNCHANGED <<calls, cells, built, current, open, golog>>

Next ==
  \E t \in Goroutines :
    \/ \E call \in Calls : SinkFails(t, call) \/ TypedFails(t, call) \/ Configure(t, call)
    \/ storeLogger(t)
    \/ SetLevel(t) \/ \E level \in SetLevels : SetLevelStore(t, level)
    \/ \E name \in Names : NewLogger(t, name) \/ Named(t, name)
    \/ WithType(t)
    \/ \E e \in Entries : Log(t, e)
    \/ LogCheck(t) \/ LogWrite(t)
    \/ Close(t)
    \/ Finish(t)

Spec == Init /\ [][Next]_vars

-----------------------------------------------------------------------------
(* Properties.                                                             *)

Caller(name) == Sink("caller", 0, name)

\* The outputs an entry has to reach, from the configuration its logger was
\* made from and the level of that configuration when the entry was checked.
Expected(th) ==
  LET b        == built[th.logger.config]
      call     == b.call
      outputs  == {call.outputs[i] : i \in DOMAIN call.outputs}
      enabled  == {o \in outputs : th.entry.level >= OutputLevel[o]}
      default  == IF Observed(call) THEN {Sink("observer", b.cell, "default")}
                  ELSE IF Destination(call.cfg) = "none" THEN {}
                  ELSE {Sink(Destination(call.cfg), b.cell, "default")}
      typed    == IF Destination(call.typedCfg) = "none" THEN {}
                  ELSE {Sink(Destination(call.typedCfg), b.cell, "typed")}
      on       == IF th.entry.level >= th.level THEN default ELSE {}
      selected == th.entry.level = DebugLevel /\ Selectors(call.cfg) # {} =>
                    {All, th.entry.name} \cap Selectors(call.cfg) # {}
      toTyped  == /\ th.entry.type = "event"
                  /\ Observed(call) => call.fn = "ConfigureWithTypedOutputLocal"
  IN  IF HasCore(call)
      THEN {Caller(o) : o \in {c \in {call.core} : selected /\ th.entry.level >= OutputLevel[c]}}
      ELSE IF IsTyped(call)
      THEN IF ~selected \/ (on = {} /\ enabled = {}) THEN {}
           ELSE IF toTyped THEN typed ELSE default \cup {Caller(o) : o \in outputs}
      ELSE {Caller(o) : o \in enabled} \cup (IF selected THEN on ELSE {})

\* Whatever is configured and whichever level is set meanwhile, an entry is
\* written once to every output it belongs to, and to no other: events to the
\* typed output and the rest to the default output and the outputs passed in,
\* debug entries of loggers that are not selected nowhere near the default
\* output, and always by the configuration its logger was made from.
RightOutputs ==
  \A t \in Goroutines : thread[t].pc = "logged" =>
    /\ Cardinality(ToSet(thread[t].to)) = Len(thread[t].to)
    /\ ToSet(thread[t].to) = IF thread[t].logger.config = 1 THEN {}
                             ELSE Expected(thread[t])

\* Closing a logger closes all files of the configuration it was made from,
\* no others, also when With or Named made the logger from another one.
CloseReleases ==
  [][\A t \in Goroutines : thread[t].pc # "closed" /\ thread'[t].pc = "closed" =>
       open' = open \ Files(built[thread[t].logger.config].root)]_vars

=============================================================================
