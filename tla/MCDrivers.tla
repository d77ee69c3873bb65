------------------------------ MODULE MCDrivers ------------------------------
(***************************************************************************)
(* The hardware drivers, one per behaviour: which one is chosen at the     *)
(* start and kept, and the variables it does not have keep their value.    *)
(***************************************************************************)
EXTENDS DriverCalls, TLC

CONSTANTS
    TsmasterCalls,   \* bound: calls started on TSMaster, whose library has
                     \* threads of its own
    ToomossCalls,    \* bounds of Toomoss, which has two objects made and used
    ToomossFrames    \* one after the other, and batches of frames

VARIABLES
    device,
    opened, closeErr,                                            \* several
    loaded, client, registered, connectedHardware, attached,     \* PCAN
    driverOpen, port, portOpen, active, response, answers,       \* Vector
    connected, loop, batch, callback, inCallback, last,          \* TSMaster
    made, shut, panicked, overlapped, reporting,
    platform, object, objects, deviceOpen, tried,                \* Toomoss
    elins, elinsOn, toStart, started, toStop

pcanOnly == <<loaded, client, connectedHardware, attached>>
vectorOnly == <<driverOpen, port, portOpen, active, response, answers>>
tsmasterOnly == <<connected, loop, batch, callback, inCallback, last, made, shut,
                  panicked, overlapped, reporting>>
toomossOnly == <<platform, object, objects, deviceOpen, tried, elins, elinsOn, toStart,
                 started, toStop>>
\* What the three other drivers have and Toomoss has not.
notToomoss == <<op, asked, masterLock, callMu, bus, passed, stolen, opened, client,
                registered, connectedHardware, attached, driverOpen, port, portOpen,
                response, answers, connected, loop, batch, callback, inCallback, last,
                made, shut, panicked, reporting>>

P == INSTANCE PcanDriver
V == INSTANCE VectorDriver
S == INSTANCE TsmasterDriver WITH MaxCalls <- TsmasterCalls
T == INSTANCE ToomossDriver WITH MaxCalls <- ToomossCalls, MaxFrames <- ToomossFrames,
                                 Objects <- 2

NoPcan == loaded = FALSE /\ client = FALSE /\ connectedHardware = {} /\ attached = {}

NoVector ==
    /\ driverOpen = FALSE /\ port = FALSE /\ portOpen = FALSE /\ active = FALSE
    /\ response = "none" /\ answers = "none"

NoTsmaster ==
    /\ connected = FALSE /\ panicked = FALSE /\ overlapped = FALSE /\ reporting = FALSE
    /\ loop = "off" /\ batch = <<>> /\ last = NoFrame
    /\ callback = <<>> /\ inCallback = NoFrame
    /\ made = {} /\ shut = {}

NoToomoss ==
    /\ platform = "none" /\ object = "none" /\ objects = "none" /\ deviceOpen = "none"
    /\ tried = "none" /\ elins = "none" /\ elinsOn = "none" /\ toStart = "none"
    /\ started = "none" /\ toStop = "none"

OnlyToomoss ==
    /\ op = "none" /\ asked = "none" /\ masterLock = "none" /\ callMu = "none"
    /\ bus = "none" /\ passed = "none" /\ stolen = "none" /\ opened = "none"
    /\ client = "none" /\ registered = "none" /\ connectedHardware = "none"
    /\ attached = "none" /\ driverOpen = "none" /\ port = "none" /\ portOpen = "none"
    /\ response = "none" /\ answers = "none" /\ connected = "none" /\ loop = "none"
    /\ batch = "none" /\ callback = "none" /\ inCallback = "none" /\ last = "none"
    /\ made = "none" /\ shut = "none" /\ panicked = "none" /\ reporting = "none"

Init ==
    \/ device = "pcan" /\ P!Init /\ NoVector /\ NoTsmaster /\ NoToomoss
    \/ device = "vector" /\ V!Init /\ NoPcan /\ NoTsmaster /\ registered = FALSE /\ NoToomoss
    \/ device = "tsmaster" /\ S!Init /\ NoPcan /\ NoVector /\ closeErr = FALSE /\ NoToomoss
    \/ device = "toomoss" /\ T!Init /\ OnlyToomoss

Next ==
    /\ UNCHANGED device
    /\ \/ device = "pcan" /\ P!Next /\ UNCHANGED <<vectorOnly, tsmasterOnly, toomossOnly>>
       \/ device = "vector" /\ V!Next
          /\ UNCHANGED <<pcanOnly, tsmasterOnly, registered, toomossOnly>>
       \/ device = "tsmaster" /\ S!Next
          /\ UNCHANGED <<pcanOnly, vectorOnly, closeErr, toomossOnly>>
       \/ device = "toomoss" /\ T!Next /\ UNCHANGED notToomoss

Spec == Init /\ [][Next]_<<device, pc, calls, callVars, held, callMu, queueVars, busVars,
                           passed, closed, once, opened, closeErr, registered,
                           pcanOnly, vectorOnly, tsmasterOnly, toomossOnly>>

Symmetry == Permutations(Callers) \cup Permutations(Channels)

-----------------------------------------------------------------------------
\* Every variable of the driver at hand has its type.
TypeOK ==
    /\ device = "pcan" => P!TypeOK
    /\ device = "vector" => V!TypeOK
    /\ device = "tsmaster" => S!TypeOK
    /\ device = "toomoss" => T!TypeOK

\* No goroutine is in a library that Close has taken away under it, and on
\* Toomoss none is there for an object whose successor has the adapter.
LibraryPresent ==
    /\ device = "pcan" => P!LibraryPresent
    /\ device = "vector" => V!LibraryPresent
    /\ device = "toomoss" => T!OwnDevice

\* A Close without an error leaves nothing behind in the library, and no
\* receive loop; of TSMaster's only the loop, since it ignores the library's
\* errors.
ClosedCleanly ==
    /\ device = "pcan" => P!ClosedCleanly
    /\ device = "vector" => V!ClosedCleanly
    /\ device = "tsmaster" => S!ClosedCleanly

\* Only a frame another channel's reader passed on comes after a newer one;
\* Toomoss keeps the channels apart, and there none does.
OvertakenOnlyIfPassedOn ==
    /\ device = "pcan" => P!OvertakenOnlyIfPassedOn
    /\ device = "vector" => V!OvertakenOnlyIfPassedOn
    /\ device = "toomoss" => T!ReadInOrder

\* No MasterRead returns the answer another one still waits for.
OwnAnswers ==
    /\ device = "pcan" => P!OwnAnswers
    /\ device = "vector" => V!OwnAnswers
    /\ device = "tsmaster" => S!OwnAnswers

\* Nobody changes a channel's response between its preparation and its header.
HeaderAsPrepared == device = "vector" => V!HeaderAsPrepared

\* A closed queue or a missing loader is met only by a call Close overlapped,
\* or by a callback the library was not done with when Close closed the queues.
PanicOnlyIfOverlapped == device = "tsmaster" => S!PanicOnlyIfOverlapped

\* Close leaves no ELINS channel started, the adapter closed and the library
\* freed, unless a ReadEvent it overlapped loads that again on macOS.
Released == device = "toomoss" => T!Released
=============================================================================
