---------------------------- MODULE Interceptors ----------------------------
(***************************************************************************)
(* What travels beside a call's payload and who looks at it: metadata, the *)
(* deadline, and the interceptors of rpc/interceptor.go and package        *)
(* observability.  Metadata maps keys to sequences of values.              *)
(***************************************************************************)
EXTENDS Integers, Sequences, FiniteSets, SequencesExt, TLC

EmptyMd == << >>
At(md, k) == IF k \in DOMAIN md THEN md[k] ELSE <<>>
\* mergeMetadata and mergeIn: values are appended key by key.
Merge(dst, kv) == [k \in DOMAIN dst \cup DOMAIN kv |-> At(dst, k) \o At(kv, k)]
\* metadataFromKV and IncomingHeader copy.
metadataFromKV(hdr) == hdr

-----------------------------------------------------------------------------
\* One handler's view: a script of SetHeader, SetTrailer and Send, then its
\* return.  s.hdr is the one holder of both directions' metadata.
NewStream == [holder |-> EmptyMd, headerSent |-> FALSE, begin |-> EmptyMd, panic |-> FALSE]

flushBegin(s) == IF s.headerSent THEN s ELSE [s EXCEPT !.headerSent = TRUE, !.begin = s.holder]

\* Faulty variant: a trailer that is set late is refused like a header.
SetTrailerEarly(s, kv) == IF s.headerSent THEN s ELSE [s EXCEPT !.holder = Merge(@, kv)]

SetTrailer(s, kv) == [s EXCEPT !.holder = Merge(@, kv)]
SetHeader(s, kv) == IF s.headerSent THEN [s EXCEPT !.panic = TRUE] ELSE [s EXCEPT !.holder = Merge(@, kv)]
HandlerOp(s, op) ==
  IF s.panic THEN s
  ELSE CASE op.do = "header" -> SetHeader(s, op.kv)
         [] op.do = "trailer" -> SetTrailer(s, op.kv)
         [] op.do = "send" -> flushBegin(s)
\* The stream after each operation of the script.
Played(script) ==
  LET s[n \in 0..Len(script)] == IF n = 0 THEN NewStream ELSE HandlerOp(s[n - 1], script[n]) IN s
\* The client's two holders once Begin and End are dispatched.
Metadata(script) ==
  LET s == flushBegin(Played(script)[Len(script)])
  IN [panic |-> s.panic, header |-> Merge(EmptyMd, s.begin), trailer |-> Merge(EmptyMd, s.holder)]

-----------------------------------------------------------------------------
\* deadline_ms: what is left of the caller's ctx, in units of 1/Unit ms, as a
\* w-bit integer, and what the server makes of it; 0 is no deadline.
Unit == 4
Truncate(n, w) == ((n + 2^(w - 1)) % 2^w) - 2^(w - 1)
Milliseconds(left) == IF left >= 0 THEN left \div Unit ELSE -((-left) \div Unit)

\* Faulty variant: a started millisecond counts.
DeadlineMsUp(left, w) == Truncate(Milliseconds(left + Unit - 1), w)

DeadlineMs(left, w) == Truncate(Milliseconds(left), w)
durationFromMs(ms) == IF ms <= 0 THEN 0 ELSE ms

-----------------------------------------------------------------------------
\* Interceptors by kind: "trace", "metrics", "log", each with what it does on
\* the way in and on the way out of next.
TraceKey == "traceparent"
\* World: the map in ctx, the spans started so far, what the observers wrote,
\* and the order in which interceptors were entered.
NewWorld == [hdr |-> EmptyMd, spans |-> 0, total |-> <<>>, logs |-> <<>>, inFlight |-> 0, entered |-> <<>>]

\* codeLabel and itoa, digits of a w-bit integer; "-" is -1.
itoa(i, w) ==
  LET digits[n \in 0..(2^w)] == IF n = 0 THEN <<>> ELSE Append(digits[n \div 10], n % 10)
      neg == Truncate(-i, w)
  IN IF i = 0 THEN <<0>>
     ELSE IF i > 0 THEN digits[i]
     ELSE <<-1>> \o (IF neg > 0 THEN digits[neg] ELSE <<>>)
codeLabel(code, w) == IF code = 0 THEN <<0>> ELSE itoa(code, w)

\* TraceUnaryClient on the way in: it appends to the map it finds in ctx,
\* which is the very map the caller gave to InvokeUnary.
TraceUnaryClient(w) ==
  [w EXCEPT !.spans = @ + 1, !.hdr = Merge(@, [k \in {TraceKey} |-> <<ToString(w.spans + 1)>>])]
\* MetricsServerStream counts a call while it runs.
MetricsServerStream(w) == [w EXCEPT !.inFlight = @ + 1]
Enter(side, w, kind) ==
  LET e == [w EXCEPT !.entered = Append(@, kind)]
  IN CASE kind = "trace" /\ side = "client" -> TraceUnaryClient(e)
       [] kind = "metrics" /\ side = "server" -> MetricsServerStream(e)
       [] OTHER -> e

\* Faulty variant: only successes are counted.
MetricsDoneOkOnly(side, w, code) ==
  [w EXCEPT !.total = IF code = 0 THEN Append(@, codeLabel(code, 8)) ELSE @,
            !.inFlight = IF side = "server" THEN @ - 1 ELSE @]

MetricsDone(side, w, code) ==
  [w EXCEPT !.total = Append(@, codeLabel(code, 8)), !.inFlight = IF side = "server" THEN @ - 1 ELSE @]
LogDone(w, code) == [w EXCEPT !.logs = Append(@, code)]
Leave(side, w, kind, code) ==
  CASE kind = "metrics" -> MetricsDone(side, w, code)
    [] kind = "log" -> LogDone(w, code)
    [] OTHER -> w

\* chainStreamServer, chainUnaryClient: the last n interceptors wrapped around
\* the handler, from the innermost outwards; the result lists who is entered
\* first.
Wrapped(is) ==
  LET h[n \in 0..Len(is)] == IF n = 0 THEN <<>> ELSE <<is[Len(is) - n + 1]>> \o h[n - 1] IN h
chain(is) == Wrapped(is)[Len(is)]

\* A call through a chain h that ends with a status: the world once n of its
\* interceptors are entered, and once n of them, innermost first, are left.
Entered(side, w, h) ==
  LET in[n \in 0..Len(h)] == IF n = 0 THEN w ELSE Enter(side, in[n - 1], h[n]) IN in
Left(side, w, h, code) ==
  LET out[n \in 0..Len(h)] == IF n = 0 THEN w ELSE Leave(side, out[n - 1], h[Len(h) - n + 1], code) IN out
Through(side, w, is, code) ==
  LET h == chain(is)
      in == Entered(side, w, h)[Len(h)]
  IN [wire |-> metadataFromKV(in.hdr), after |-> Left(side, in, h, code)[Len(h)]]

\* Faulty variant: the newest value.
ParentNewest(incoming) == IF At(incoming, TraceKey) = <<>> THEN "" ELSE Last(At(incoming, TraceKey))

\* TraceServerStream: the span of the first traceparent value, "" for none.
Parent(incoming) == IF At(incoming, TraceKey) = <<>> THEN "" ELSE At(incoming, TraceKey)[1]

\* Calls one after the other on a client: with no map, with a new map each, or
\* with one map of the caller's throughout.  What each server span joins.
NextCall(mode, is, acc, code) ==
  LET w == IF mode = "shared" THEN acc.world ELSE [acc.world EXCEPT !.hdr = EmptyMd]
      t == Through("client", w, is, code)
  IN [world |-> t.after, first |-> Append(acc.first, ToString(w.spans + 1)),
      joined |-> Append(acc.joined, Parent(t.wire))]
Made(mode, is, codes) ==
  LET acc[n \in 0..Len(codes)] ==
        IF n = 0 THEN [world |-> NewWorld, first |-> <<>>, joined |-> <<>>]
        ELSE NextCall(mode, is, acc[n - 1], codes[n])
  IN acc
Calls(mode, is, codes) == Made(mode, is, codes)[Len(codes)]

-----------------------------------------------------------------------------
\* What the first n operations of a script set, merged in order.
SetBy(script) ==
  LET sum[n \in 0..Len(script)] ==
        IF n = 0 THEN EmptyMd
        ELSE IF script[n].do = "send" THEN sum[n - 1] ELSE Merge(sum[n - 1], script[n].kv)
  IN sum

(* A header set before the first Send reaches the client's Header, and      *)
(* everything set without a panic reaches its Trailer in order: headers     *)
(* too, because both live in one holder, and a trailer set early also       *)
(* travels in Begin.                                                        *)
MetadataArrives(script) ==
  LET r == Metadata(script)
      sends == {i \in DOMAIN script : script[i].do = "send"}
  IN /\ sends = {} => r.header = SetBy(script)[Len(script)]
     /\ \A i \in sends : (\A j \in sends : i <= j) => r.header = SetBy(script)[i - 1]
     /\ ~r.panic => r.trailer = SetBy(script)[Len(script)]
     /\ r.panic <=> \E i \in DOMAIN script : script[i].do = "header" /\ \E j \in sends : j < i

(* The server's deadline is never later than the caller's.  It is missing   *)
(* when the caller has less than a millisecond left or so much that the     *)
(* narrower integer is not positive.  Only a deadline that passed longer    *)
(* ago than that integer reaches can come out in the future.                *)
DeadlineNotLater(left, w) ==
  LET d == durationFromMs(DeadlineMs(left, w))
      reach == Unit * 2^(w - 1)
  IN -reach <= left =>
       /\ d > 0 => d * Unit <= left
       /\ Unit <= left /\ left < reach => d = left \div Unit
       /\ left < Unit => d = 0

(* interceptors[0] is outermost; each observer of a chain sees every call   *)
(* exactly once with its final code, and nothing stays in flight.           *)
ObservedOnce(side, is, code) ==
  LET t == Through(side, NewWorld, is, code).after
      Times(kind) == Cardinality({i \in DOMAIN is : is[i] = kind})
  IN /\ t.entered = is /\ t.inFlight = 0
     /\ t.logs = [i \in 1..Times("log") |-> code]
     /\ t.total = [i \in 1..Times("metrics") |-> codeLabel(code, 8)]

(* Each server span joins the span of its own call, unless the caller keeps *)
(* one header map: then every call after the first joins the first's trace, *)
(* because values are appended and the carrier reads the oldest.            *)
TraceJoins(mode, is, codes) ==
  LET r == Calls(mode, is, codes) IN
  "trace" \in Range(is) =>
    \A n \in DOMAIN codes : r.joined[n] = (IF mode = "shared" THEN r.first[1] ELSE r.first[n])
=============================================================================
