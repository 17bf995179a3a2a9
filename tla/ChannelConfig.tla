----------------------------- MODULE ChannelConfig -----------------------------
(***************************************************************************)
(* The ChannelConfig of a bootstrap: option() of ServerBootstrap or        *)
(* ClientBootstrap, which lets some options through, ChannelConfig's own   *)
(* option() and optionValue(), and what start() and connect() read of it.  *)
(*                                                                         *)
(* Options keep their numbers: all of them go to the Listener's list, but  *)
(* those for sockets under the number that the socket API gives them, and  *)
(* that may be the number of another ChannelOption.  The lists for         *)
(* channels and sockets stay empty, so bind() of a channel, a Socket or a  *)
(* descriptor does nothing and has no action.                              *)
(***************************************************************************)
EXTENDS Integers, Sequences, SequencesExt

CONSTANTS
    Switches,     \* the options that an application sets to true or false
    Quantities,   \* the options that it sets to a number
    Values,       \* the numbers
    MaxOptions    \* bound: how many options it sets

OPT_BACKlOG == 0
OPT_REUSEPORT == 2
OPT_KEEPALIVE == 3
OPT_DONTROUTE == 4
OPT_SOCKETRCVBUF == 5
OPT_SOCKETSENDBUF == 6
OPT_TCPNODELAY == 8
OPT_TCPMAXSEG == 9
OPT_READLOWWATERMARK == 10
OPT_READHIGHWATERMARK == 11
OPT_READIDLEKETIMEOUT == 12
OPT_WRITEIDELETIMEOUT == 13
OPT_ALLIDELRTIMEOUT == 14

ASSUME ValuesAssumption == Values \subseteq Int
ASSUME OptionsAssumption == Switches \subseteq 0..14 /\ Quantities \subseteq 0..14

VARIABLES
    bootstrap,    \* whose configuration this is
    listenerOps,  \* listenerOps_: pairs of a number and a value
    cacheOps,     \* cacheOps_: a pair for each option
    wheel,        \* the seconds of the inspectors' only wheel; 0 is none
    started,      \* whether start() or connect() was called
    asked         \* history: the options set, in order, and by which option()

config == <<bootstrap, listenerOps, cacheOps, wheel, started, asked>>

ConfigTypeOK ==
    /\ bootstrap \in {"server", "client"}
    /\ listenerOps \in Seq((0..14) \X Int)
    /\ cacheOps \subseteq (0..14) \X Int
    /\ wheel \in Int
    /\ started \in BOOLEAN
    /\ asked \in Seq([opt : 0..14, optval : Int, call : {"bool", "int"}])

ConfigInit ==
    /\ bootstrap \in {"server", "client"}
    /\ listenerOps = <<>>
    /\ cacheOps = {}
    /\ wheel = 0
    /\ started = FALSE
    /\ asked = <<>>
-----------------------------------------------------------------------------
(* Faulty variants of the definitions below.                               *)

(* cacheOps_[opt] = optval.                                                *)
Cached_Last(opt, optval) ==
    {o \in cacheOps : o[1] # opt} \cup {<<opt, optval>>}
-----------------------------------------------------------------------------
(* Helpers                                                                 *)

Timeouts == {OPT_READIDLEKETIMEOUT, OPT_WRITEIDELETIMEOUT, OPT_ALLIDELRTIMEOUT}

(* The options that option(opt, bool) lets through.                        *)
TakenSwitches ==
    {OPT_KEEPALIVE, OPT_TCPNODELAY, OPT_DONTROUTE} \cup
        IF bootstrap = "server" THEN {OPT_REUSEPORT} ELSE {}

(* The options that option(opt, int) lets through.                         *)
TakenQuantities ==
    {OPT_READLOWWATERMARK, OPT_READHIGHWATERMARK, OPT_SOCKETRCVBUF, OPT_SOCKETSENDBUF,
     OPT_TCPMAXSEG} \cup Timeouts \cup
        IF bootstrap = "server" THEN {OPT_BACKlOG} ELSE {}

(* Which of the two option() is called decides what it lets through.       *)
Taken(opt, call) == opt \in IF call = "bool" THEN TakenSwitches ELSE TakenQuantities

(* The number an option is listed under: SO_KEEPALIVE, SO_DONTROUTE,       *)
(* SO_RCVBUF, SO_SNDBUF, TCP_NODELAY and TCP_MAXSEG have their own.        *)
Listed(opt) ==
    CASE opt = OPT_KEEPALIVE -> 9
      [] opt = OPT_DONTROUTE -> 5
      [] opt = OPT_SOCKETRCVBUF -> 8
      [] opt = OPT_SOCKETSENDBUF -> 7
      [] opt = OPT_TCPNODELAY -> 1
      [] opt = OPT_TCPMAXSEG -> 2
      [] OTHER -> opt

(* std::map::insert() leaves the value of an option that is there.         *)
Cached(opt, optval) ==
    IF \E o \in cacheOps : o[1] = opt THEN cacheOps ELSE cacheOps \cup {<<opt, optval>>}

OptionValue(opt) ==
    IF \E v \in Values : <<opt, v>> \in cacheOps
    THEN CHOOSE v \in Values : <<opt, v>> \in cacheOps
    ELSE 0

(* IdlChanelInspector makes one wheel, for the last timeout it is given.   *)
WheelOf(reader, writer, all) ==
    IF all > 0 THEN all ELSE IF writer > 0 THEN writer ELSE reader

(* connect() hands the reader's timeout over a second time.                *)
Wheel ==
    WheelOf(OptionValue(OPT_READIDLEKETIMEOUT), OptionValue(OPT_WRITEIDELETIMEOUT),
            OptionValue(IF bootstrap = "server" THEN OPT_ALLIDELRTIMEOUT ELSE OPT_READIDLEKETIMEOUT))
-----------------------------------------------------------------------------
(* Actions                                                                 *)

(* option() of the bootstrap and, when it lets the option through and the  *)
(* value is positive, of its configuration.                                *)
SetOption(opt, optval, call) ==
    /\ ~started /\ Len(asked) < MaxOptions
    /\ asked' = Append(asked, [opt |-> opt, optval |-> optval, call |-> call])
    /\ IF Taken(opt, call) /\ optval > 0
       THEN /\ listenerOps' = Append(listenerOps, <<Listed(opt), optval>>)
            /\ cacheOps' = Cached(opt, optval)
       ELSE UNCHANGED <<listenerOps, cacheOps>>
    /\ UNCHANGED <<bootstrap, wheel, started>>

OptionSwitch(opt, on) == SetOption(opt, IF on THEN 1 ELSE 0, "bool")

OptionQuantity(opt, optval) == SetOption(opt, optval, "int")

(* start() and connect() read the timeouts.                                *)
ReadConfig ==
    /\ ~started
    /\ started' = TRUE
    /\ wheel' = Wheel
    /\ UNCHANGED <<bootstrap, listenerOps, cacheOps, asked>>

Options ==
    \/ \E opt \in Switches, on \in BOOLEAN : OptionSwitch(opt, on)
    \/ \E opt \in Quantities, optval \in Values : OptionQuantity(opt, optval)
=============================================================================
