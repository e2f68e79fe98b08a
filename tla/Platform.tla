-------------------------------- MODULE Platform --------------------------------
(***************************************************************************)
(* The in-tree providers (windows.cpp, cuda.cpp, storage.cpp,              *)
(* synthetic.cpp) under the runtime that samples them: what each returns   *)
(* when calls into the operating system, the CUDA driver and the CUDA      *)
(* runtime fail, one by one and at any refresh, and what the snapshot then *)
(* says of the machine.                                                    *)
(*                                                                         *)
(* Windows, CUDA and the operating system are external: a call answers or  *)
(* fails.  Every resource has Capacity bytes and at any time as many of    *)
(* them in use as the others; a synthetic curve may have any value.        *)
(***************************************************************************)
EXTENDS PressureRuntime

CONSTANTS
  Ordinals,          \* device ordinals, 0 and up
  UuidId,            \* the domain id made of the UUID of each device
  FallbackId,        \* the one made of its name and ordinal
  NamelessId,        \* the same when the driver does not tell its name
  SyntheticDomains,  \* the specs that are present
  FailureAfter,      \* failure_after_steps_
  Starts,            \* where programs start: [devices, scenario, tick]
  Capacity, Loads,   \* bytes of a resource, and how many may be in use
  Setups,            \* what programs register before they refresh
  Governed,          \* domains that callers set budgets for
  MaxFaults          \* bound: calls that fail in one refresh, the names aside

InTree == {"windows", "cuda", "storage", "synthetic"}

\* The ids a device may have.
IdsOfDevice(i) == {UuidId[i], FallbackId[i], NamelessId[i]}

\* Each id belongs to one provider; those of a device tell it from the others.
ASSUME PlatformAssumption ==
  /\ Ordinals \subseteq Nat
  /\ {UuidId, FallbackId, NamelessId} \subseteq [Ordinals -> Domains]
  /\ \A i \in Ordinals : /\ \A d \in IdsOfDevice(i) : Source[d] = "cuda"
                          /\ \A j \in Ordinals \ {i} : IdsOfDevice(i) \cap IdsOfDevice(j) = {}
  /\ {"host-memory", "system-commit", "process-commit", "storage"} \cup SyntheticDomains \subseteq Domains
  /\ \A d \in {"host-memory", "system-commit", "process-commit"} : Source[d] = "windows"
  /\ Source["storage"] = "storage" /\ \A d \in SyntheticDomains : Source[d] = "synthetic"
  /\ FailureAfter \in Nat /\ Capacity \in Bytes /\ Loads \subseteq Bytes
  /\ Starts \subseteq [devices : [driver : Nat, runtime : Nat], scenario : STRING, tick : Nat]
  /\ Setups \subseteq SUBSET (Providers \cap InTree) /\ Governed \subseteq Domains

Calls == {"GlobalMemoryStatusEx", "GetPerformanceInfo", "GetProcessMemoryInfo", "GetDiskFreeSpaceExW"}

\* The calls that fail in a refresh, those about a device by its ordinal.
Faults == [system : SUBSET Calls, uuid : SUBSET Ordinals, name : SUBSET Ordinals, memory : SUBSET Ordinals]
\* The name of a device matters only without its UUID.
FaultsWithinBound ==
  {f \in Faults : /\ Cardinality(f.system) + Cardinality(f.uuid) + Cardinality(f.memory) <= MaxFaults
                  /\ f.name \subseteq f.uuid}

VARIABLES
  devices,   \* [driver, runtime]: the devices each of the two counts
  scenario,  \* scenario_ of the synthetic provider
  tick,      \* tick_: samples already taken, by whomever
  memory     \* the bytes in use when the refresh last run sampled them

platform == <<devices, scenario, tick, memory>>
-------------------------------------------------------------------------------
(* What the providers return. *)

Sample(status, observed) == [status |-> status, observed |-> observed]
Measured(used) ==
  [reading |-> [total |-> Capacity, usable |-> Capacity, committed |-> used], validity |-> "Valid"]

\* Without GlobalMemoryStatusEx there is nothing, without GetPerformanceInfo
\* only the host, without GetProcessMemoryInfo all but the process.
WindowsSample(faults, used) ==
  LET answers(call) == call \notin faults.system
      ids == {"host-memory"}
        \cup IF answers("GetPerformanceInfo")
             THEN {"system-commit"} \cup IF answers("GetProcessMemoryInfo") THEN {"process-commit"} ELSE {}
             ELSE {}
  IN  IF ~answers("GlobalMemoryStatusEx") THEN Sample("Failed", NoDomains)
      ELSE Sample(IF answers("GetPerformanceInfo") THEN "Healthy" ELSE "Partial",
                  [d \in ids |-> Measured(used)])

StorageSample(faults, used) ==
  IF "GetDiskFreeSpaceExW" \in faults.system THEN Sample("Unavailable", NoDomains)
  ELSE Sample("Healthy", [d \in {"storage"} |-> Measured(used)])

\* The constructor asks once: the driver's count, if it counts any device.
DeviceCount(dev) == IF dev.driver > 0 THEN dev.driver ELSE dev.runtime

\* A name that could not be had is the empty one.
DeviceDomainId(i, haveUuid, haveName) ==
  IF haveUuid THEN UuidId[i] ELSE IF haveName THEN FallbackId[i] ELSE NamelessId[i]

\* Mistake, for mutation: a failed query leaves its zero bytes looking valid.
UnmeasuredButValid == [reading |-> [total |-> 0, usable |-> 0, committed |-> 0], validity |-> "Valid"]

\* The observation of a device whose memory could not be read.
Unmeasured == [reading |-> [total |-> 0, usable |-> 0, committed |-> 0], validity |-> "Failed"]

\* Ordinals and with them UUID and name are the driver's, the memory query is the
\* runtime's.  A handle that cuDeviceGet does not return is the ordinal, as CUDA's
\* handles are.
CudaSample(dev, faults, used) ==
  LET ordinals == {i \in Ordinals : i < DeviceCount(dev)}
      answers  == {i \in ordinals : i < dev.runtime} \ faults.memory
      id       == [i \in ordinals |-> DeviceDomainId(i, dev.driver > 0 /\ i \notin faults.uuid,
                                                     dev.driver > 0 /\ i \notin faults.name)]
  IN  IF ordinals = {} THEN Sample("Unavailable", NoDomains)
      ELSE Sample(IF answers = ordinals THEN "Healthy" ELSE "Partial",
                  [d \in Range(id) |-> IF \E i \in answers : id[i] = d THEN Measured(used)
                                                                      ELSE Unmeasured])

\* The simulated provider: it fails for good, or goes on with stale readings.
SyntheticSample(sc, t, used) ==
  LET stale == sc = "StaleProvider" /\ t >= 3
  IN  IF sc = "ProviderFailure" /\ t >= FailureAfter THEN Sample("Failed", NoDomains)
      ELSE Sample(IF stale THEN "Stale" ELSE "Healthy",
                  [d \in SyntheticDomains |->
                     [Measured(used) EXCEPT !.validity = IF stale THEN "Stale" ELSE "Valid"]])

SampleOf(p, faults, used) ==
  CASE p = "windows"   -> WindowsSample(faults, used)
    [] p = "cuda"      -> CudaSample(devices, faults, used)
    [] p = "storage"   -> StorageSample(faults, used)
    [] p = "synthetic" -> SyntheticSample(scenario, tick, used)
-------------------------------------------------------------------------------
(* The runtime on this platform. *)

PlatformInit ==
  /\ Init
  /\ \E m \in Starts : devices = m.devices /\ scenario = m.scenario /\ tick = m.tick
  /\ memory = 0

\* Programs register their providers first.
Setup ==
  /\ snapshot.id = 0
  /\ \E s \in Setups : registered \subseteq s /\ \E p \in s : RegisterProvider(p)
  /\ UNCHANGED platform

Reconfigure ==
  /\ \/ \E d \in Governed : ClearBudget(d) \/ \E b \in Candidates : SetBudget(d, b)
     \/ \E n \in Limits : SetHistoryLimit(n)
  /\ UNCHANGED platform

RefreshPlatform(faults, used, score, dt) ==
  /\ registered \in Setups
  /\ Refresh([p \in registered |-> SampleOf(p, faults, used)], score, dt)
  /\ memory' = used
  /\ tick' = IF "synthetic" \in registered THEN tick + 1 ELSE tick
  /\ UNCHANGED <<devices, scenario>>

PlatformNext ==
  \/ Setup \/ Reconfigure
  \/ \E faults \in FaultsWithinBound, used \in Loads, score \in Scores, dt \in Steps :
       RefreshPlatform(faults, used, score, dt)

PlatformSpec == PlatformInit /\ [][PlatformNext]_<<vars, platform>>

-------------------------------------------------------------------------------
(* Properties *)

\* A device is never published twice nor left out, although its id depends on
\* two calls that may fail at any refresh, its readings on another, and driver and
\* runtime may not count the same devices: the entry under the id it had before
\* is withdrawn in the refresh that names it anew (CudaDeviceProvider::sample,
\* and the removal of domains in refresh).
OneEntryPerDevice ==
  snapshot.id > 0 /\ "cuda" \in registered =>
    \A i \in Ordinals :
      Cardinality(IdsOfDevice(i) \cap DOMAIN snapshot.domains)
        = IF i < DeviceCount(devices) THEN 1 ELSE 0

\* A reading that is published as VALID is the machine's, taken in this very
\* refresh: neither a failed call nor an outage before it leaves one behind
\* (the providers' sample functions, and the retention of domains in refresh).
ValidMeansMeasured ==
  \A d \in DOMAIN snapshot.domains :
    snapshot.domains[d].validity = "Valid" => snapshot.domains[d].state.committed = memory
===============================================================================
