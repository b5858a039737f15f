--------------------------------- MODULE Log ---------------------------------
(***************************************************************************)
(* The courier's log: loggers behind the Glog filter, and behind it one    *)
(* stream (log.StreamHandler), which formats and writes under a mutex.     *)
(* The heading of a line and its colours are left out.                     *)
(***************************************************************************)
EXTENDS Glog, Logfmt

CONSTANTS
  Calls,       \* the arguments a call is given
  LoggerCtx,   \* the context of the logger
  MaxPadding,  \* termCtxMaxPadding
  Unlocked

VARIABLES
  ctx,      \* Record.Ctx of each logger
  mu,       \* who holds the stream's mutex
  line,     \* the line that was written last, while its record is logged
  padding,  \* fieldPadding
  given     \* history: the arguments of each record

stream == <<ctx, mu, line, padding, given>>

LogInit ==
  /\ Init
  /\ ctx = [p \in Loggers |-> <<>>] /\ given = [p \in Loggers |-> <<>>]
  /\ mu = Unlocked /\ line = <<>> /\ padding = <<>>

(* logger.write.                                                           *)
Write(p) ==
  /\ Start(p)
  /\ \E args \in Calls :
       given' = [given EXCEPT ![p] = args] /\ ctx' = [ctx EXCEPT ![p] = NewContext(LoggerCtx, args)]
  /\ UNCHANGED <<mu, line, padding>>

(* LazyHandler, and the mutex of SyncHandler.                              *)
Sync(p) ==
  /\ pc[p] = "emit" /\ mu = Unlocked
  /\ mu' = p
  /\ ctx' = [ctx EXCEPT ![p] = LazyHandler(@)]
  /\ UNCHANGED <<settings, siteCache, pc, site, lvl, line, padding, given>>

(* Format and Write; the record is over when Log returns.                  *)
Format(p) ==
  /\ mu = p /\ pc[p] = "emit"
  /\ LET formatted == Logfmt(ctx[p], padding, MaxPadding) IN
       line' = formatted.line /\ padding' = formatted.padding
  /\ GoTo(p, "written")
  /\ UNCHANGED <<settings, siteCache, site, lvl, ctx, mu, given>>

Over(p) == ctx' = [ctx EXCEPT ![p] = <<>>] /\ given' = [given EXCEPT ![p] = <<>>]

Written(p) ==
  /\ pc[p] = "written"
  /\ mu' = Unlocked /\ line' = <<>> /\ GoTo(p, "idle") /\ Over(p)
  /\ UNCHANGED <<settings, siteCache, site, lvl, padding>>

Dropped(p) == pc[p] = "drop" /\ Return(p) /\ Over(p) /\ UNCHANGED <<mu, line, padding>>

LogStep ==
  \/ Set /\ UNCHANGED stream
  \/ \E p \in Loggers :
       \/ Write(p) \/ Sync(p) \/ Format(p) \/ Written(p) \/ Dropped(p)
       \/ Log(p) /\ UNCHANGED stream

LogNext == LogStep /\ Witness

LogSpec == LogInit /\ [][LogNext]_<<vars, stream>>

-----------------------------------------------------------------------------
LogTypeOK ==
  /\ pc \in [Loggers -> Steps \cup {"written"}] /\ mu \in Loggers \cup {Unlocked}
  /\ \A p \in Loggers : Len(ctx[p]) % 2 = 0
  /\ \A k \in DOMAIN padding : padding[k] \in 1..MaxPadding

(* What a reader of the log is to find in a line: the context of the       *)
(* logger, then the arguments of the call in their order with every value  *)
(* as it was, an odd argument with nil, a value that failed as its error.  *)
(* A key that is not a string comes without it and its value               *)
(* (format.go:170).  A key is not escaped (format.go:173, 189): it loses   *)
(* leading spaces, as " event" does (syncer.go:161), and nothing is said   *)
(* of a field whose key has a space, a newline or an equals sign in it, or *)
(* is empty, nor of the fields after it.                                   *)
Trimmed(text) == SelectSeq(text, LAMBDA c : c # "space")

Broken(k) ==
  /\ k.kind = "string"
  /\ \/ Holds(k.text, {"newline", "equals"}) \/ Trimmed(k.text) = <<>>
     \/ ~IsSuffix(Trimmed(k.text), k.text)

Shown(k, v) ==
  IF k.kind # "string" THEN <<ErrorKey.text, <<>>>>
  ELSE <<Trimmed(k.text), CASE v.kind = "nil" -> <<"nil">> [] v.kind = "bad lazy" -> <<"INVALID_LAZY">> [] OTHER -> v.text>>

Fields(args) ==
  [i \in 1..((Len(args) + 1) \div 2) |->
     <<args[2 * i - 1], IF 2 * i <= Len(args) THEN args[2 * i] ELSE TheNil>>]

ShownAll(fields) ==
  LET broken == {i \in DOMAIN fields : Broken(fields[i][1])}
  IN  [i \in {i \in DOMAIN fields : \A j \in broken : i < j} |-> Shown(fields[i][1], fields[i][2])]

LineReadable ==
  /\ LogTypeOK
  /\ \A p \in Loggers : pc[p] = "written" =>
       LET fields == Fields(LoggerCtx) \o Fields(given[p]) IN
       /\ IsPrefix(ShownAll(fields), ReadFields(line))
       /\ "newline" \in ToSet(line) => \E i \in DOMAIN fields : Broken(fields[i][1])

=============================================================================
