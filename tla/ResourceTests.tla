--------------------------- MODULE ResourceTests ---------------------------
(***************************************************************************)
(* What the tests borrow from the library and from exec, and in which      *)
(* order they give it back: for each test of nine test files the calls it  *)
(* makes that take, register or return something, as a sequence of steps   *)
(* for module Resources.  What a test does with a connection in between    *)
(* decides only its verdict (Judge).                                       *)
(***************************************************************************)
EXTENDS Integers, Sequences

None == -1    \* no descriptor

Step(op)       == [op |-> op]
On(op, x)      == [op |-> op, x |-> x]
Between(op, x, y) == [op |-> op, x |-> x, y |-> y]

\* if (every local in needs >= 0) ... else ...
If(needs, yes, no) == [op |-> "if", needs |-> needs, yes |-> yes, no |-> no]
-----------------------------------------------------------------------------
(***************************************************************************)
(* testutil.h and the library, as a test calls them                        *)
(***************************************************************************)
make_tcp_socket(f)         == On("socket", f)
make_loopback_listener(l)  == On("listen", l)
make_loopback_client(c, l) == Between("connect", c, l)
accept_one(s, l)           == Between("accept", s, l)
safe_close(f)              == On("close", f)

alloc_signal == Step("alloc")
free_signal  == Step("free")
ClearSignal  == Step("clear")            \* SetSignal(0, 1UL << sigbit)

SetMask(m, to)       == Between("set_mask", m, to)
SetEventMask(s, on)  == On(IF on THEN "watch" ELSE "unwatch", s)   \* setsockopt(SO_EVENTMASK)
Cause(s)             == On("cause", s)            \* make an event happen on s
WaitSelect           == Step("wait")              \* at most two seconds, with the signal
Delay                == Step("delay")             \* WaitSelect() on nothing, 100 ms
GetSocketEvents      == Step("get")

Judge(how) == On("judge", how)           \* tap_ok
Fail       == <<On("say", "fail")>>      \* tap_ok(0, ...)
Skip       == <<On("say", "skip")>>
-----------------------------------------------------------------------------
(***************************************************************************)
(* The shapes most tests have                                              *)
(***************************************************************************)
Pair == << make_loopback_listener("listener"), make_loopback_client("client", "listener"),
           accept_one("server", "listener") >>

Unpair == << safe_close("server"), safe_close("client"), safe_close("listener") >>

Judged == <<Judge("stack")>>

SocketTest == << make_tcp_socket("fd"), If({"fd"}, Judged, Fail), safe_close("fd") >>

TwoSocketTest == << make_tcp_socket("fd"), make_tcp_socket("fd2"),
                    If({"fd", "fd2"}, Judged, Fail), safe_close("fd"), safe_close("fd2") >>

PairTest(needs) == Pair \o <<If(needs, Judged, Fail)>> \o Unpair

Connected == {"client", "server"}

\* CloseSocket(f); f = -1
CloseNow(f) == << safe_close(f), On("forget", f) >>

PeerCloseTest == Pair \o <<If(Connected, CloseNow("server") \o Judged, Fail)>> \o Unpair

\* A feature the stack need not have
OptionalTest == Pair \o <<If(Connected, <<Judge("optional")>>, Fail)>> \o Unpair
-----------------------------------------------------------------------------
(***************************************************************************)
(* test_socket.c                                                           *)
(***************************************************************************)
RawTest     == << make_tcp_socket("fd"), If({"fd"}, Judged, <<Judge("refused")>>), safe_close("fd") >>
RefusedTest == << On("refused", "fd"), Judge("stack"), safe_close("fd") >>
CloseTest   == << make_tcp_socket("fd"), If({"fd"}, <<safe_close("fd"), Judge("stack")>>, Fail) >>

AcceptAddrTest ==
    << make_loopback_listener("listener"), make_loopback_client("client", "listener"),
       If({"listener", "client"},
          <<accept_one("server", "listener"), Judge("stack"), safe_close("server")>>, Fail),
       safe_close("client"), safe_close("listener") >>

AcceptNonBlockingTest ==
    << make_loopback_listener("listener"),
       If({"listener"}, <<On("refused", "server"), Judge("stack"), safe_close("server")>>, Fail),
       safe_close("listener") >>

SocketProgram(n) ==
    CASE n = 3             -> RawTest
      [] n \in {4, 5}      -> RefusedTest
      [] n = 8             -> TwoSocketTest
      [] n = 11            -> PairTest({"listener", "client", "server"})
      [] n = 13            -> PairTest({"server"})
      [] n = 14            -> AcceptAddrTest
      [] n = 15            -> AcceptNonBlockingTest
      [] n \in 16..18      -> PairTest(Connected)
      [] n = 19            -> CloseTest
      [] n = 20            -> Judged
      [] n = 22            -> PairTest({"client"})
      [] OTHER             -> SocketTest
-----------------------------------------------------------------------------
(***************************************************************************)
(* test_sendrecv.c and test_throughput.c: some tests need the host helper  *)
(***************************************************************************)
IfHelper(yes) == [op |-> "if_helper", yes |-> yes, no |-> Skip]

helper_connect_service(f) == On("socket", f)    \* TCP and connected, or -1
make_udp_socket(f)        == On("socket", f)
accept_external(s)        == On("socket", s)    \* with a timeout of its own

AllocatorTest == << make_tcp_socket("fd"), safe_close("fd") >> \o TwoSocketTest

ServiceTest ==
    << IfHelper(<< helper_connect_service("fd"), If({"fd"}, Judged \o <<safe_close("fd")>>, Fail) >>) >>

DatagramTest ==
    << IfHelper(<< make_udp_socket("fd"), If({"fd"}, Judged \o <<safe_close("fd")>>, Fail) >>) >>

AcceptExternalTest ==
    << IfHelper(
         << make_tcp_socket("listener"),
            If({"listener"},
               << accept_external("server"),
                  If({"server"}, Judged \o <<safe_close("server")>>, Fail), safe_close("listener") >>,
               Fail) >>) >>

SendrecvProgram(n) ==
    CASE n \in {27, 34} -> OptionalTest
      [] n \in {28, 30} -> TwoSocketTest
      [] n = 29         -> AllocatorTest
      [] n = 33         -> PairTest({"server"})
      [] n = 35         -> PeerCloseTest
      [] n \in {39, 42} -> ServiceTest
      [] n = 40         -> DatagramTest
      [] n = 41         -> AcceptExternalTest
      [] OTHER          -> PairTest(Connected)

ThroughputProgram(n) ==
    CASE n \in {137, 141} -> PairTest(Connected)
      [] n \in {138, 142} -> ServiceTest
      [] n = 139          -> TwoSocketTest
      [] n = 140          -> DatagramTest
-----------------------------------------------------------------------------
(***************************************************************************)
(* test_sockopt.c and test_misc.c                                          *)
(***************************************************************************)
SockoptProgram(n) ==
    CASE n = 43 -> TwoSocketTest
      [] n = 56 -> PairTest(Connected)
      [] n = 57 -> << make_tcp_socket("fd"), If({"fd"}, <<Judge("optional")>>, Fail), safe_close("fd") >>
      [] OTHER  -> SocketTest

\* SBTC_DTABLESIZE, read into a local and set from one
GetSize(local) == On("get_dtable", local)
SetSize(local) == On("set_dtable", local)
IfSize(local, least, yes, no) ==
    [op |-> "if_size", x |-> local, least |-> least, yes |-> yes, no |-> no]
Target(local, size) == Between("let", local, size)

SizeTest(target) ==
    << GetSize("dtsize"),
       IfSize("dtsize", 64,
              <<target, SetSize("new_dtsize"), GetSize("new_dtsize"), Judge("stack"), SetSize("dtsize")>>,
              Fail) >>

CloseShutDownTest ==
    Pair \o << If(Connected, CloseNow("client") \o Judged, Fail) >>
         \o << safe_close("client"), safe_close("server"), safe_close("listener") >>

MaxSocketsTest == << Step("open_many"), Judge("stack"), Step("close_many") >>

MiscProgram(n) ==
    CASE n = 128 -> SizeTest(Between("let_sum", "new_dtsize", "dtsize"))
      [] n = 130 -> CloseShutDownTest
      [] n = 131 -> MaxSocketsTest
      [] OTHER   -> Judged
-----------------------------------------------------------------------------
(***************************************************************************)
(* test_waitselect.c                                                       *)
(***************************************************************************)
NullTimeoutTest ==
    << make_loopback_listener("listener"), make_loopback_client("client", "listener"),
       If({"listener", "client"}, Judged, Fail),
       If({"listener"}, <<accept_one("server", "listener"), safe_close("server")>>, <<>>),
       safe_close("client"), safe_close("listener") >>

PairTwo == << make_loopback_listener("listener2"), make_loopback_client("client2", "listener2"),
              accept_one("server2", "listener2") >>

UnpairAll == << safe_close("server"), safe_close("client"), safe_close("listener"),
                safe_close("server2"), safe_close("client2"), safe_close("listener2") >>

\* three pairs in the code
ManyPairsTest == Pair \o PairTwo \o <<If({"server", "server2"}, Judged, Fail)>> \o UnpairAll

SignalTest ==
    << alloc_signal, make_loopback_listener("listener"),
       If({"listener"}, <<Step("signal"), WaitSelect, Judge("stack")>>, Fail),
       safe_close("listener"), ClearSignal, free_signal >>

SigmaskTest == <<alloc_signal>> \o PairTest(Connected) \o <<free_signal>>

ClosedTest == << make_tcp_socket("client"), If({"client"}, CloseNow("client") \o Judged, Fail) >>

RestoreSize == Step("restore_dtable")

ManyTest ==
    LET Opened == << Step("open_many"), Judge("many"), Step("close_many") >>
    IN  << GetSize("dtsize"),
           IfSize("dtsize", 66, Opened,
                  << Target("new_dtsize", 128), SetSize("new_dtsize"), GetSize("new_dtsize"),
                     IfSize("new_dtsize", 66, Opened, Skip) >>),
           RestoreSize >>

ConnectTest ==
    << make_loopback_listener("listener"),
       If({"listener"},
          << make_tcp_socket("client"),
             If({"client"},
                << Between("connect_async", "client", "listener"), Step("wait_writable"), Judge("rc"),
                   accept_one("server", "listener"), safe_close("server"), safe_close("client") >>,
                Fail) >>,
          Fail),
       safe_close("listener") >>

WaitselectProgram(n) ==
    CASE n \in {58, 59, 69} -> PairTest(Connected)
      [] n \in {60, 61}     -> PairTest({"server"})
      [] n = 62             -> NullTimeoutTest
      [] n = 63             -> Judged
      [] n = 64             -> OptionalTest
      [] n = 65             -> ManyPairsTest
      [] n = 66             -> SignalTest
      [] n = 67             -> SigmaskTest
      [] n = 68             -> ClosedTest
      [] n = 70             -> ManyTest
      [] n = 71             -> ConnectTest
      [] n = 72             -> PeerCloseTest
-----------------------------------------------------------------------------
(***************************************************************************)
(* test_signals.c: events raise the signal registered as SIGEVENTMASK.     *)
(* The cleanup clears event masks, then the signal mask, then closes, then *)
(* clears and frees the signal (test_signals.c:153).                       *)
(***************************************************************************)
BreakMaskTest ==
    << alloc_signal, SetMask("BREAKMASK", "sigbit"), SetMask("BREAKMASK", "none"),
       Judge("pass"), free_signal >>

BreakMaskTagTest ==
    << alloc_signal, On("save_mask", "BREAKMASK"), SetMask("BREAKMASK", "sigbit"), Judge("stack"),
       SetMask("BREAKMASK", "orig"), free_signal >>

WithEventSignal(body, closes) ==
    << alloc_signal, SetMask("SIGEVENTMASK", "sigbit") >> \o body
    \o << SetMask("SIGEVENTMASK", "none") >> \o closes
    \o << ClearSignal, free_signal >>

\* An event test on a connection, with the server watched
Observed(events) ==
    WithEventSignal(
        Pair \o << If(Connected,
                      <<SetEventMask("server", TRUE)>> \o events \o <<SetEventMask("server", FALSE)>>,
                      Fail) >>,
        Unpair)

OneEvent == << Cause("server"), WaitSelect, GetSocketEvents, Judge("server") >>

ConsumedEvent == << Cause("server"), WaitSelect, GetSocketEvents, GetSocketEvents, Judge("consumed") >>

CloseEvent == CloseNow("client") \o OneEvent

\* fifty rounds in the code; a round that fails is the last
Round(rest) == << Cause("server"), WaitSelect, GetSocketEvents, [op |-> "if_event", yes |-> rest] >>
Stress == Round(<<ClearSignal>> \o Round(<<ClearSignal, Step("complete")>>)) \o <<Judge("complete")>>

ConnectEventTest ==
    WithEventSignal(
        << make_loopback_listener("listener"),
           If({"listener"},
              << make_tcp_socket("client"),
                 If({"client"},
                    << SetEventMask("client", TRUE), Between("connect_async", "client", "listener"),
                       WaitSelect, GetSocketEvents, Judge("connected"), SetEventMask("client", FALSE),
                       accept_one("server", "listener"), safe_close("server") >>,
                    Fail),
                 safe_close("client") >>,
              Fail) >>,
        <<safe_close("listener")>>)

IdleTest ==
    WithEventSignal(
        << make_tcp_socket("fd"),
           If({"fd"}, << SetEventMask("fd", TRUE), Delay, GetSocketEvents, Judge("quiet"),
                         SetEventMask("fd", FALSE) >>, Fail) >>,
        <<safe_close("fd")>>)

AcceptEventTest ==
    WithEventSignal(
        << make_loopback_listener("listener"),
           If({"listener"},
              << SetEventMask("listener", TRUE), make_loopback_client("client", "listener"),
                 If({"client"},
                    << WaitSelect, GetSocketEvents, Judge("listener"),
                       accept_one("server", "listener"), safe_close("server") >>,
                    Fail),
                 SetEventMask("listener", FALSE), safe_close("client") >>,
              Fail) >>,
        <<safe_close("listener")>>)

BothEvents == << Cause("server"), Cause("server2"), WaitSelect, Delay,
                 GetSocketEvents, GetSocketEvents, GetSocketEvents, Judge("both") >>

TwoEventsTest ==
    WithEventSignal(
        Pair \o PairTwo \o
        << If({"server", "server2"},
              << SetEventMask("server", TRUE), SetEventMask("server2", TRUE) >> \o BothEvents
              \o << SetEventMask("server", FALSE), SetEventMask("server2", FALSE) >>,
              Fail) >>,
        UnpairAll)

SignalsProgram(n) ==
    CASE n = 73        -> BreakMaskTest
      [] n = 74        -> BreakMaskTagTest
      [] n = 75        -> WithEventSignal(Judged, <<>>)
      [] n \in 76..77  -> Judged
      [] n = 78        -> SizeTest(Target("new_dtsize", 128))
      [] n = 79        -> Observed(OneEvent)
      [] n = 80        -> ConnectEventTest
      [] n = 81        -> IdleTest
      [] n = 82        -> AcceptEventTest
      [] n = 83        -> Observed(CloseEvent)
      [] n = 84        -> Observed(ConsumedEvent)
      [] n = 85        -> TwoEventsTest
      [] n = 86        -> << GetSocketEvents, Judge("none") >>
      [] n = 87        -> Observed(Stress)
-----------------------------------------------------------------------------
(***************************************************************************)
(* test_transfer.c and test_errno.c                                        *)
(***************************************************************************)
DupTest ==
    << make_tcp_socket("fd"), If({"fd"}, <<Between("dup", "fd2", "fd"), Judge("stack"), safe_close("fd2")>>, Fail),
       safe_close("fd") >>

DupUsedTest ==
    Pair \o << If(Connected,
                  << Between("dup", "other", "server"),
                     If({"other"}, Judged \o <<safe_close("other")>>, Fail) >>,
                  Fail) >>
         \o Unpair

ReleaseTest ==
    Pair \o << If(Connected,
                  << Between("release", "id", "server"),
                     If({"id"},
                        << On("forget", "server"), Between("obtain", "other", "id"),
                           If({"other"}, Judged \o <<safe_close("other")>>, Fail) >>,
                        Skip) >>,
                  Fail) >>
         \o Unpair

ReleaseCopyTest ==
    Pair \o << If(Connected,
                  << Between("release_copy", "id", "server"), If({"id"}, Judged, Skip) >>, Fail) >>
         \o Unpair

TransferProgram(n) ==
    CASE n \in {115, 116} -> DupTest
      [] n = 117          -> DupUsedTest
      [] n = 118          -> ReleaseTest
      [] n = 119          -> ReleaseCopyTest

PointErrno        == On("errno_ptr", "local")
restore_bsd_errno == On("errno_ptr", "bsd_errno")

ErrnoPtrTest == << PointErrno, Judge("stack"), restore_bsd_errno >>

ErrnoTagTest ==
    << PointErrno, make_tcp_socket("fd"),
       If({"fd"}, <<safe_close("fd"), Judge("stack")>>, Judged), restore_bsd_errno >>

IfConnected(yes) == [op |-> "if_rc", yes |-> yes, no |-> <<>>]

StaleErrnoTest ==
    << make_loopback_listener("listener"),
       If({"listener"},
          << make_tcp_socket("client"),
             If({"client"},
                << Between("connect_now", "client", "listener"), Judge("rc"),
                   IfConnected(<<accept_one("server", "listener"), safe_close("server")>>),
                   safe_close("client"), safe_close("listener") >>,
                Fail \o <<safe_close("listener")>>) >>,
          Fail) >>

ErrnoProgram(n) ==
    CASE n = 120          -> RefusedTest
      [] n = 121          -> << make_tcp_socket("fd"), If({"fd"}, <<Judge("pass"), safe_close("fd")>>, Fail) >>
      [] n \in 122..124   -> ErrnoPtrTest
      [] n = 125          -> ErrnoTagTest
      [] n = 126          -> StaleErrnoTest
-----------------------------------------------------------------------------
Category(first, last) == [first |-> first, last |-> last]

Files == [ socket |-> Category(1, 23),       sendrecv |-> Category(24, 42),
           sockopt |-> Category(43, 57),     waitselect |-> Category(58, 72),
           signals |-> Category(73, 87),     transfer |-> Category(115, 119),
           errno |-> Category(120, 126),     misc |-> Category(127, 131),
           throughput |-> Category(137, 142) ]

Program(n) ==
    CASE n \in 1..23    -> SocketProgram(n)
      [] n \in 24..42   -> SendrecvProgram(n)
      [] n \in 43..57   -> SockoptProgram(n)
      [] n \in 58..72   -> WaitselectProgram(n)
      [] n \in 73..87   -> SignalsProgram(n)
      [] n \in 115..119 -> TransferProgram(n)
      [] n \in 120..126 -> ErrnoProgram(n)
      [] n \in 127..131 -> MiscProgram(n)
      [] n \in 137..142 -> ThroughputProgram(n)

\* A known crash is reported; test 70 then goes to ws70_done
Spared(n) == IF n = 70 THEN Fail \o <<RestoreSize>> ELSE Fail
=============================================================================
