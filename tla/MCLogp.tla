------------------------------- MODULE MCLogp -------------------------------
(***************************************************************************)
(* Two goroutines.  The logger is configured up to twice by any of the     *)
(* functions: to files, standard error, syslog and an observer, with and   *)
(* without selectors, typed outputs and outputs of the caller.             *)
(***************************************************************************)
EXTENDS Logp

User(env, level, selectors, to) ==
  [DefaultConfig(env) EXCEPT !.level = level, !.selectors = selectors, !.to = @ \cup to]

NoFlags == [toStderr |-> FALSE, verbose |-> FALSE, debugSelectors |-> {}]
DebugA  == [NoFlags EXCEPT !.debugSelectors = {<<"a">>}]
Stderr  == [NoFlags EXCEPT !.toStderr = TRUE, !.verbose = TRUE]

LevelOfCaller == [quiet |-> ErrorLevel, chatty |-> DebugLevel]

Files_A  == applyFlags(User("default", InfoLevel, {}, {}), DebugA)
Files_I  == applyFlags(User("default", CriticalLevel, {}, {}), NoFlags)
Stderr_V == applyFlags(User("default", WarnLevel, {}, {}), Stderr)
Syslog_S == applyFlags([User("default", DebugLevel, {All}, {}) EXCEPT !.to = {"syslog"}], NoFlags)
Observer == [User("default", DebugLevel, {<<"a">>}, {}) EXCEPT !.to = {"observer"}]
Nothing  == [User("default", InfoLevel, {}, {}) EXCEPT !.to = {}]
Event    == DefaultEventConfig("default")

NewCall(fn, cfg, outputs) ==
  [fn |-> fn, cfg |-> cfg, typedCfg |-> EventConfig(cfg, Event), outputs |-> outputs,
   core |-> "chatty"]

MCCalls ==
  {NewCall("ConfigureWithOutputs", Files_A, <<"quiet">>),
   NewCall("ConfigureWithOutputs", Files_I, <<>>),
   NewCall("ConfigureWithCore", Files_A, <<>>),
   NewCall("ConfigureWithCoreLocal", Nothing, <<>>),
   NewCall("ConfigureWithTypedOutput", Files_A, <<>>),
   NewCall("ConfigureWithTypedOutput", Stderr_V, <<"chatty", "quiet">>),
   NewCall("ConfigureWithTypedOutput", Observer, <<>>),
   NewCall("ConfigureWithTypedOutputLocal", Syslog_S, <<"quiet">>),
   NewCall("ConfigureWithTypedOutputLocal", Nothing, <<>>)}

MCNames   == {<<"a">>, <<"b">>}
MCEntries == [level : {DebugLevel, InfoLevel, ErrorLevel}, type : {"none", "event"}]
MCLevels  == {DebugLevel, ErrorLevel}
=============================================================================
