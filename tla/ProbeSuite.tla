----------------------------- MODULE ProbeSuite -----------------------------
(***************************************************************************)
(* The nine probes as buildApp assembles them, and how each one grades     *)
(* what it observes (internal/probe, pkg/cidr, pkg/netutil).  A call that  *)
(* can fail comes back as a record: whether it did, and its value.         *)
(* Messages, hints and details are left out.                               *)
(***************************************************************************)
EXTENDS ProbeResults, Integers

\* The probes in the order the runner executes them.
Suite == <<"metadata", "vpc_ownership", "subnet_ownership", "default_route", "dns",
           "internet_https", "public_ip_consistency", "system_resources", "clock_skew">>

Probe == {Suite[i] : i \in DOMAIN Suite}

Returned(values) == [ok : BOOLEAN, value : values]

Verdict(good) == IF good THEN "pass" ELSE "fail"

----------------------------------------------------------------------------
\* Addresses are numbers of AddressBits bits; Unparsable is no address.
AddressBits == 3
Address == 0..(2^AddressBits - 1)
Unparsable == 2^AddressBits
Prefix == [base : Address, bits : 0..AddressBits]

\* cidr.Contains: the prefix is masked, and so is the address.
CIDRContains(prefix, ip) ==
    LET block == 2^(AddressBits - prefix.bits)
    IN  ip \div block = prefix.base \div block

\* Instance ID, private IP, public IP and zone, in this order: one error ends it.
MetadataStatus(calls) == Verdict(\A i \in 1..4 : calls[i])

OwnershipStatus(privateIP, prefix) ==
    Verdict(/\ privateIP.ok
            /\ privateIP.value # Unparsable
            /\ CIDRContains(prefix, privateIP.value))

\* DefaultRoute: a route to 0.0.0.0 with RTF_UP, the lowest flag, set.
HasDefaultRoute(routes) ==
    \E i \in DOMAIN routes : routes[i].destination = 0 /\ routes[i].flags % 2 = 1

RouteStatus(table) == Verdict(table.ok /\ HasDefaultRoute(table.value))

DNSStatus(resolved) == Verdict(resolved)

\* HTTPGet: the first attempt that gets an answer decides, whatever the
\* answer; an attempt that is lost, or not made, decides nothing.
HTTPGetSucceeds(attempts) ==
    \E i \in DOMAIN attempts :
        /\ attempts[i] = "2xx"
        /\ \A j \in 1..(i - 1) : attempts[j] = "lost"

InternetHTTPSStatus(attempts) == Verdict(HTTPGetSucceeds(attempts))

PublicIPStatus(metaIP, externalIP) ==
    IF ~ (metaIP.ok /\ externalIP.ok) THEN "fail"
    ELSE IF metaIP.value = "" \/ externalIP.value = "" THEN "warn"
    ELSE Verdict(metaIP.value = externalIP.value)

\* MemFree stands in for a MemAvailable that is missing or zero.
Available(meminfo) == IF meminfo.available = 0 THEN meminfo.free ELSE meminfo.available

SystemStatus(files, meminfo, load1) ==
    IF ~ files.ok \/ meminfo.total = 0 THEN "fail"
    ELSE IF 10 * Available(meminfo) < meminfo.total \/ load1 > 4 THEN "warn"
    ELSE "pass"

\* measured: local minus server time, in ticks; `second` ticks make a second,
\* and one second of the measure is put down to truncation and latency.
ClockStatus(measured, second) ==
    LET distance == IF measured < 0 THEN -measured ELSE measured
        skew     == IF distance < second THEN 0 ELSE distance - second
    IN  IF skew < 2 * second THEN "pass"
        ELSE IF skew <= 10 * second THEN "warn"
        ELSE "fail"

----------------------------------------------------------------------------
Route == [destination : 0..1, flags : 0..3]
\* ReadRouteTable: the lines that parse, or an error; 0 is 0.0.0.0.
RouteTable == Returned(UNION {[1..n -> Route] : n \in 0..2})
PrivateIP == Returned(Address \cup {Unparsable})
PublicIP == Returned({"", "a", "b"})
\* /proc/uptime, loadavg and meminfo: all three are read and parsed, or not.
ResourceFiles == Returned({"read"})
Meminfo == [total : {0, 20}, available : {0, 1, 2}, free : {1, 20}]

\* The statuses each probe's Execute may return by itself: its grade of
\* everything it may observe.
OwnStatus ==
    LET ownership == {OwnershipStatus(ip, prefix) : ip \in PrivateIP, prefix \in Prefix}
    IN  [metadata         |-> {MetadataStatus(calls) : calls \in [1..4 -> BOOLEAN]},
         vpc_ownership    |-> ownership,
         subnet_ownership |-> ownership,
         default_route    |-> {RouteStatus(table) : table \in RouteTable},
         dns              |-> {DNSStatus(resolved) : resolved \in BOOLEAN},
         internet_https   |->
            {InternetHTTPSStatus(attempts) : attempts \in [1..3 -> {"lost", "2xx", "other"}]},
         public_ip_consistency |->
            {PublicIPStatus(meta, external) : meta \in PublicIP, external \in PublicIP},
         system_resources |->
            {SystemStatus(files, mem, load) :
                files \in ResourceFiles, mem \in Meminfo, load \in {4, 5}},
         clock_skew       |->
            {"fail"} \cup {ClockStatus(measured, 1) : measured \in -12..12}]
=============================================================================
