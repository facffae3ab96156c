------------------------- MODULE EndpointOptsProofs -------------------------
(***************************************************************************)
(* Proofs about EndpointOpts, for any clouds, any number of scrapes at a   *)
(* time and any lists of services.                                         *)
(***************************************************************************)
EXTENDS EndpointOpts, TLAPS

\* The mutex is held by the scrape that writes, if one does.
Mutex == \A h \in Handlers : pc[h] = "write" <=> mu = h

\* Where a scrape is in its list, and what runs only while it gathers.
Places ==
  \A h \in Handlers :
    /\ pc[h] \in {"lock", "write", "client"} => next[h] <= Len(order[h])
    /\ reading[h] # {} => pc[h] = "gather"
    /\ pending[h] # {} => pc[h] = "gather"

\* Every exporter that may still look options up has stored its own.
Stores ==
  \A h \in Handlers :
    /\ written[h] \subseteq DOMAIN opts
    /\ registered[h] \cup pending[h] \cup reading[h] \subseteq written[h]
    /\ pc[h] = "client" => Service(h) \in written[h]

\* As long as scrapes have not overlapped one of them is at work, and what it has
\* stored is still there.
Alone ==
  ~overlapped =>
    /\ \A g, h \in Handlers : pc[g] # "idle" /\ pc[h] # "idle" => g = h
    /\ \A h \in Handlers : pc[h] # "idle" =>
         \A s \in written[h] : opts[s] = cloud[h]

IInv == TypeOK /\ Mutex /\ Places /\ Stores /\ OptionsFound /\ Alone /\ OwnWhenTrusted

USE DEF TypeOK

\* The length of a list is a number.
LEMMA LenType ==
  ASSUME ListsOK, NEW h \in Handlers
  PROVE  Len(order[h]) \in Nat
BY OptsAssumption DEF OptsAssumption, ListsOK

\* The services of a list are services.
LEMMA ServiceType ==
  ASSUME ListsOK, NEW h \in Handlers, next[h] <= Len(order[h])
  PROVE  Service(h) \in Services
<1>1. order[h] \in Orders /\ Len(order[h]) \in Nat
      BY OptsAssumption DEF OptsAssumption, ListsOK
<1>2. next[h] \in 1..Len(order[h])
      BY <1>1 DEF ListsOK
<1> QED
    BY <1>1, <1>2 DEF Service, Services

LEMMA InitInv == Init => IInv
<1> SUFFICES ASSUME Init PROVE IInv
    OBVIOUS
<1> USE DEF Init
<1>1. OptsOK
      BY DEF OptsOK
<1>2. ListsOK
      BY DEF ListsOK
<1>3. ScrapesOK
      BY OptsAssumption DEF OptsAssumption, ScrapesOK
<1>4. TypeOK
      BY <1>1, <1>2, <1>3
<1>5. Mutex /\ Places /\ Stores
      BY OptsAssumption DEF OptsAssumption, Mutex, Places, Stores
<1>6. OptionsFound /\ Alone /\ OwnWhenTrusted
      BY DEF OptionsFound, Alone, OwnWhenTrusted
<1> QED
    BY <1>4, <1>5, <1>6 DEF IInv
---------------------------------------------------------------------------
(* The steps.                                                              *)

LEMMA BeginInv ==
  ASSUME IInv, NEW h \in Handlers, NEW c \in Clouds, NEW o \in Orders,
         Begin(h, c, o)
  PROVE  IInv'
<1> USE DEF IInv, Begin
<1>1. OptsOK' /\ ListsOK'
      BY LenType DEF OptsOK, ListsOK, Places
<1>2. ScrapesOK'
      BY ServiceType DEF ScrapesOK, Places
<1>3. TypeOK'
      BY <1>1, <1>2
<1>4. Mutex' /\ Places'
      BY OptsAssumption, LenType DEF OptsAssumption, ScrapesOK, ListsOK, Mutex, Places
<1>5. /\ pc[h] = "idle" /\ pc'[h] = "enable" /\ cloud'[h] = c
      /\ registered'[h] = {} /\ written'[h] = {} /\ used'[h] = {}
      /\ pending[h] = {} /\ reading[h] = {}
      /\ UNCHANGED <<opts, pending, reading>>
      BY DEF ScrapesOK, Places
<1>6. ASSUME NEW g \in Handlers \ {h}
      PROVE  /\ pc'[g] = pc[g] /\ cloud'[g] = cloud[g] /\ registered'[g] = registered[g]
             /\ written'[g] = written[g] /\ used'[g] = used[g]
             /\ order'[g] = order[g] /\ next'[g] = next[g]
      BY DEF ScrapesOK, ListsOK
<1>7. /\ ~overlapped' => ~overlapped /\ \A g \in Handlers \ {h} : pc[g] = "idle"
      OBVIOUS
<1> HIDE DEF Begin, TypeOK
<1>8. Stores'
      BY <1>5, <1>6 DEF Stores, Service
<1>9. OptionsFound' /\ OwnWhenTrusted'
      <2>1. ASSUME NEW g \in Handlers, NEW u \in used'[g]
            PROVE  g # h /\ u \in used[g] /\ cloud'[g] = cloud[g]
            BY <1>5, <1>6, <2>1
      <2> QED
          BY <1>7, <2>1 DEF OptionsFound, OwnWhenTrusted
<1>10. Alone'
       BY <1>5, <1>6, <1>7 DEF Alone
<1> QED
    BY <1>3, <1>4, <1>8, <1>9, <1>10

LEMMA EnableFailsInv ==
  ASSUME IInv, NEW h \in Handlers, EnableFails(h)
  PROVE  IInv'
<1> USE DEF IInv, EnableFails
<1>1. OptsOK' /\ ListsOK'
      BY LenType DEF OptsOK, ListsOK, Places
<1>2. ScrapesOK'
      BY ServiceType DEF ScrapesOK, Places
<1>3. TypeOK'
      BY <1>1, <1>2
<1>4. Mutex' /\ Places'
      BY OptsAssumption, LenType DEF OptsAssumption, ScrapesOK, ListsOK, Mutex, Places
<1>5. Stores'
      BY SMTT(30) DEF ScrapesOK, ListsOK, Stores, Places, Service
<1>6. OptionsFound' /\ Alone' /\ OwnWhenTrusted'
      BY SMTT(30) DEF ScrapesOK, OptionsFound, Alone, OwnWhenTrusted
<1> QED
    BY <1>3, <1>4, <1>5, <1>6

LEMMA AuthenticatedInv ==
  ASSUME IInv, NEW h \in Handlers, Authenticated(h)
  PROVE  IInv'
<1> USE DEF IInv, Authenticated
<1>1. OptsOK' /\ ListsOK'
      BY LenType DEF OptsOK, ListsOK, Places
<1>2. ScrapesOK'
      BY ServiceType DEF ScrapesOK, Places
<1>3. TypeOK'
      BY <1>1, <1>2
<1>4. Mutex' /\ Places'
      BY OptsAssumption, LenType DEF OptsAssumption, ScrapesOK, ListsOK, Mutex, Places
<1>5. Stores'
      BY SMTT(30) DEF ScrapesOK, ListsOK, Stores, Places, Service
<1>6. OptionsFound' /\ Alone' /\ OwnWhenTrusted'
      BY SMTT(30) DEF ScrapesOK, OptionsFound, Alone, OwnWhenTrusted
<1> QED
    BY <1>3, <1>4, <1>5, <1>6

LEMMA LockInv ==
  ASSUME IInv, NEW h \in Handlers, Lock(h)
  PROVE  IInv'
<1> USE DEF IInv, Lock
<1>1. OptsOK' /\ ListsOK'
      BY LenType DEF OptsOK, ListsOK, Places
<1>2. ScrapesOK'
      BY ServiceType DEF ScrapesOK, Places
<1>3. TypeOK'
      BY <1>1, <1>2
<1>4. Mutex' /\ Places'
      BY OptsAssumption, LenType DEF OptsAssumption, ScrapesOK, ListsOK, Mutex, Places
<1>5. Stores'
      BY SMTT(30) DEF ScrapesOK, ListsOK, Stores, Places, Service
<1>6. OptionsFound' /\ Alone' /\ OwnWhenTrusted'
      BY SMTT(30) DEF ScrapesOK, OptionsFound, Alone, OwnWhenTrusted
<1> QED
    BY <1>3, <1>4, <1>5, <1>6

\* The entry that is written is the only one that changes.
LEMMA WriteInv ==
  ASSUME IInv, NEW h \in Handlers, Write(h)
  PROVE  IInv'
<1> USE DEF IInv, Write
<1>1. Service(h) \in Services
      BY ServiceType DEF Places
<1>2. /\ DOMAIN opts' = DOMAIN opts \cup {Service(h)}
      /\ opts'[Service(h)] = cloud[h]
      /\ \A s \in DOMAIN opts : s # Service(h) => opts'[s] = opts[s]
      BY DEF Stored
<1>3. OptsOK' /\ ListsOK'
      BY <1>1, <1>2 DEF OptsOK, ListsOK, ScrapesOK
<1>4. ScrapesOK'
      BY <1>1 DEF ScrapesOK
<1>5. TypeOK'
      BY <1>3, <1>4
<1>6. Mutex' /\ Places'
      BY OptsAssumption DEF OptsAssumption, ScrapesOK, Mutex, Places
<1>7. Stores'
      BY <1>2 DEF ScrapesOK, Stores, Service
<1>8. OptionsFound' /\ OwnWhenTrusted'
      BY DEF OptionsFound, OwnWhenTrusted
<1>9. Alone'
      BY <1>2 DEF ScrapesOK, Alone, Stores
<1> QED
    BY <1>5, <1>6, <1>7, <1>8, <1>9

LEMMA EnabledInv ==
  ASSUME IInv, NEW h \in Handlers, Enabled(h)
  PROVE  IInv'
<1> USE DEF IInv, Enabled
<1>1. OptsOK' /\ ListsOK'
      BY LenType DEF OptsOK, ListsOK, Places
<1>2. ScrapesOK'
      <2>1. Service(h) \in Services
            BY ServiceType DEF Places
      <2>2. CASE mode = "cached"
            BY <2>1, <2>2 DEF ScrapesOK
      <2>3. CASE mode # "cached"
            BY <2>1, <2>3 DEF ScrapesOK
      <2> QED
          BY <2>2, <2>3
<1>3. TypeOK'
      BY <1>1, <1>2
<1>4. Mutex' /\ Places'
      <2>1. /\ pc[h] = "client" /\ pc'[h] \in {"enable", "gather"}
            /\ pending'[h] # {} => pc'[h] = "gather"
            /\ UNCHANGED <<mu, order, reading>>
            BY DEF ScrapesOK, Places
      <2>2. \A g \in Handlers \ {h} :
              pc'[g] = pc[g] /\ pending'[g] = pending[g] /\ next'[g] = next[g]
            BY DEF ScrapesOK, ListsOK
      <2>3. Mutex'
            BY <2>1, <2>2 DEF Mutex
      <2>4. Places'
            BY <2>1, <2>2 DEF Places
      <2> QED
          BY <2>3, <2>4
<1>5. Stores'
      BY SMTT(30) DEF ScrapesOK, ListsOK, Stores, Places, Service
<1>6. OptionsFound' /\ Alone' /\ OwnWhenTrusted'
      BY SMTT(30) DEF ScrapesOK, OptionsFound, Alone, OwnWhenTrusted
<1> QED
    BY <1>3, <1>4, <1>5, <1>6

LEMMA ClientFailsInv ==
  ASSUME IInv, NEW h \in Handlers, ClientFails(h)
  PROVE  IInv'
<1> USE DEF IInv, ClientFails
<1>1. OptsOK' /\ ListsOK'
      BY LenType DEF OptsOK, ListsOK, Places
<1>2. ScrapesOK'
      BY ServiceType DEF ScrapesOK, Places
<1>3. TypeOK'
      BY <1>1, <1>2
<1>4. Mutex' /\ Places'
      BY OptsAssumption, LenType DEF OptsAssumption, ScrapesOK, ListsOK, Mutex, Places
<1>5. Stores'
      BY SMTT(30) DEF ScrapesOK, ListsOK, Stores, Places, Service
<1>6. OptionsFound' /\ Alone' /\ OwnWhenTrusted'
      BY SMTT(30) DEF ScrapesOK, OptionsFound, Alone, OwnWhenTrusted
<1> QED
    BY <1>3, <1>4, <1>5, <1>6

LEMMA AllEnabledInv ==
  ASSUME IInv, NEW h \in Handlers, AllEnabled(h)
  PROVE  IInv'
<1> USE DEF IInv, AllEnabled
<1>1. OptsOK' /\ ListsOK'
      BY LenType DEF OptsOK, ListsOK, Places
<1>2. ScrapesOK'
      BY ServiceType DEF ScrapesOK, Places
<1>3. TypeOK'
      BY <1>1, <1>2
<1>4. Mutex' /\ Places'
      <2>1. /\ pc[h] = "enable" /\ pc'[h] \in {"idle", "enable", "gather"}
            /\ pending'[h] # {} => pc'[h] = "gather"
            /\ UNCHANGED <<mu, order, next, reading>>
            BY DEF ScrapesOK, Places
      <2>2. \A g \in Handlers \ {h} : pc'[g] = pc[g] /\ pending'[g] = pending[g]
            BY DEF ScrapesOK
      <2>3. Mutex'
            BY <2>1, <2>2 DEF Mutex
      <2>4. Places'
            BY <2>1, <2>2 DEF Places
      <2> QED
          BY <2>3, <2>4
<1>5. Stores'
      <2>1. ASSUME NEW g \in Handlers
            PROVE  /\ registered'[g] \subseteq registered[g]
                   /\ pending'[g] \subseteq pending[g] \cup registered[g]
            BY DEF ScrapesOK
      <2>2. \A g \in Handlers : pc'[g] = "client" => pc[g] = "client"
            BY DEF ScrapesOK
      <2> QED
          BY <2>1, <2>2 DEF Stores, Service
<1>6. OptionsFound' /\ Alone' /\ OwnWhenTrusted'
      BY SMTT(30) DEF ScrapesOK, OptionsFound, Alone, OwnWhenTrusted
<1> QED
    BY <1>3, <1>4, <1>5, <1>6

LEMMA ReadStartInv ==
  ASSUME IInv, NEW h \in Handlers, NEW s \in Services,
         ReadStart(h, s)
  PROVE  IInv'
<1> USE DEF IInv, ReadStart
<1>1. OptsOK' /\ ListsOK'
      BY LenType DEF OptsOK, ListsOK, Places
<1>2. ScrapesOK'
      BY ServiceType DEF ScrapesOK, Places
<1>3. TypeOK'
      BY <1>1, <1>2
<1>4. Mutex' /\ Places'
      BY OptsAssumption, LenType DEF OptsAssumption, ScrapesOK, ListsOK, Mutex, Places
<1>5. Stores'
      BY SMTT(30) DEF ScrapesOK, ListsOK, Stores, Places, Service
<1>6. OptionsFound' /\ Alone' /\ OwnWhenTrusted'
      BY SMTT(30) DEF ScrapesOK, OptionsFound, Alone, OwnWhenTrusted
<1> QED
    BY <1>3, <1>4, <1>5, <1>6

LEMMA ReadSkippedInv ==
  ASSUME IInv, NEW h \in Handlers, NEW s \in Services,
         ReadSkipped(h, s)
  PROVE  IInv'
<1> USE DEF IInv, ReadSkipped
<1>1. OptsOK' /\ ListsOK'
      BY LenType DEF OptsOK, ListsOK, Places
<1>2. ScrapesOK'
      BY ServiceType DEF ScrapesOK, Places
<1>3. TypeOK'
      BY <1>1, <1>2
<1>4. Mutex' /\ Places'
      BY OptsAssumption, LenType DEF OptsAssumption, ScrapesOK, ListsOK, Mutex, Places
<1>5. Stores'
      BY SMTT(30) DEF ScrapesOK, ListsOK, Stores, Places, Service
<1>6. OptionsFound' /\ Alone' /\ OwnWhenTrusted'
      BY SMTT(30) DEF ScrapesOK, OptionsFound, Alone, OwnWhenTrusted
<1> QED
    BY <1>3, <1>4, <1>5, <1>6

LEMMA GatheredInv ==
  ASSUME IInv, NEW h \in Handlers, Gathered(h)
  PROVE  IInv'
<1> USE DEF IInv, Gathered
<1>1. OptsOK' /\ ListsOK'
      BY LenType DEF OptsOK, ListsOK, Places
<1>2. ScrapesOK'
      BY ServiceType DEF ScrapesOK, Places
<1>3. TypeOK'
      BY <1>1, <1>2
<1>4. Mutex' /\ Places'
      BY OptsAssumption, LenType DEF OptsAssumption, ScrapesOK, ListsOK, Mutex, Places
<1>5. Stores'
      BY SMTT(30) DEF ScrapesOK, ListsOK, Stores, Places, Service
<1>6. OptionsFound' /\ Alone' /\ OwnWhenTrusted'
      BY SMTT(30) DEF ScrapesOK, OptionsFound, Alone, OwnWhenTrusted
<1> QED
    BY <1>3, <1>4, <1>5, <1>6

\* The lookup finds the options of identity or those that the exporter has stored,
\* and both are its cloud's if nobody else can have written them.
LEMMA ReadEndInv ==
  ASSUME IInv, NEW h \in Handlers, NEW s \in Services, ReadEnd(h, s)
  PROVE  IInv'
<1> USE DEF IInv, ReadEnd
<1>1. s \in Readers /\ s \in written[h] /\ s \in DOMAIN opts /\ pc[h] = "gather"
      BY DEF ScrapesOK, Stores, Places
<1>2. LookedUp(s) \in Clouds
      BY <1>1 DEF LookedUp, OptsOK
<1>3. Trusted(h) \in BOOLEAN
      BY DEF Trusted
<1>4. ~overlapped /\ Trusted(h) => LookedUp(s) = cloud[h]
      <2>1. ~overlapped => \A t \in written[h] : opts[t] = cloud[h]
            BY <1>1 DEF Alone
      <2> QED
          BY <1>1, <2>1 DEF Trusted, LookedUp, Stores
<1>5. OptsOK' /\ ListsOK'
      BY DEF OptsOK, ListsOK
<1> DEFINE read == <<s, LookedUp(s), Trusted(h)>>
<1>6. read \in Readers \X (Clouds \cup {NoCloud}) \X BOOLEAN
      BY <1>1, <1>2, <1>3
<1>7. used' = [used EXCEPT ![h] = @ \cup {read}]
      OBVIOUS
<1>8. read[1] = s /\ read[2] = LookedUp(s) /\ read[3] = Trusted(h)
      OBVIOUS
<1> HIDE DEF read
<1>9. ScrapesOK'
      BY <1>6, <1>7 DEF ScrapesOK
<1>10. Mutex' /\ Places' /\ Stores'
       BY DEF ScrapesOK, Mutex, Places, Stores, Service
<1>11. \A g \in Handlers : \A u \in used'[g] : u \in used[g] \/ (g = h /\ u = read)
       <2>1. ASSUME NEW g \in Handlers, g # h PROVE used'[g] = used[g]
             BY <1>7, <2>1 DEF ScrapesOK
       <2>2. used'[h] = used[h] \cup {read}
             BY <1>7 DEF ScrapesOK
       <2>3. \A u \in used'[h] : u \in used[h] \/ u = read
             BY <2>2
       <2> QED
           BY <2>1, <2>3
<1>12. OptionsFound'
       BY <1>2, <1>8, <1>11, OptsAssumption DEF OptsAssumption, OptionsFound
<1>13. OwnWhenTrusted'
       BY <1>4, <1>8, <1>11 DEF OwnWhenTrusted
<1>14. Alone'
       BY DEF Alone
<1>15. TypeOK'
       BY <1>5, <1>9
<1> QED
    BY <1>10, <1>12, <1>13, <1>14, <1>15

LEMMA StepInv == IInv /\ [Next]_vars => IInv'
<1> SUFFICES ASSUME IInv, [Next]_vars PROVE IInv'
    OBVIOUS
<1>1. CASE UNCHANGED vars
      BY <1>1 DEF vars, IInv, OptsOK, ListsOK, ScrapesOK, Mutex, Places, Stores,
                  OptionsFound, Alone, OwnWhenTrusted, Service
<1>2. ASSUME NEW h \in Handlers, Step(h) PROVE IInv'
      BY <1>2, EnableFailsInv, AuthenticatedInv, WriteInv, EnabledInv,
         ClientFailsInv, AllEnabledInv, ReadStartInv, ReadSkippedInv, ReadEndInv,
         GatheredInv
      DEF Step
<1> QED
    BY <1>1, <1>2, BeginInv, LockInv DEF Next, Stopped

LEMMA Inductive == Spec => []IInv
BY InitInv, StepInv, PTL DEF Spec
---------------------------------------------------------------------------

\* The types, and no scrape runs past the end of its list of services.
THEOREM TypeCorrect == Spec => []TypeOK
<1>1. IInv => TypeOK
      BY DEF IInv
<1> QED
    BY <1>1, Inductive, PTL

\* With the cache nobody scrapes but the collector.
OnlyCollector ==
  mode = "cached" =>
    ~overlapped /\ \A h \in Handlers : pc[h] # "idle" => h = Collector

LEMMA OnlyCollectorStep == IInv /\ OnlyCollector /\ [Next]_vars => OnlyCollector'
<1> SUFFICES ASSUME IInv, OnlyCollector, [Next]_vars PROVE OnlyCollector'
    OBVIOUS
<1> USE DEF IInv, ScrapesOK, OnlyCollector
<1>1. CASE Stopped \/ UNCHANGED vars
      BY <1>1 DEF Stopped, vars
<1>2. ASSUME NEW h \in Handlers, NEW c \in Clouds, NEW o \in Orders, Begin(h, c, o)
      PROVE  OnlyCollector'
      BY <1>2 DEF Begin
<1>3. ASSUME NEW h \in Handlers, Lock(h) \/ Step(h)
      PROVE  /\ mode' = mode /\ overlapped' = overlapped
             /\ \A g \in Handlers : pc'[g] # "idle" => pc[g] # "idle"
      BY <1>3 DEF Step, Lock, EnableFails, Authenticated, Write, Enabled, ClientFails,
                  AllEnabled, Gathered, ReadStart, ReadSkipped, ReadEnd
<1> QED
    BY <1>1, <1>2, <1>3 DEF Next

\* Writers of endpointOptsV2 exclude each other and the readers of their own
\* scrape, and all readers as long as no two scrapes have overlapped, which is
\* always with the cache (utils.go:134-139, keystone.go:165).
THEOREM WritersExclude == Spec => []Excluded
<1>1. Init => OnlyCollector
      BY DEF Init, OnlyCollector
<1>2. IInv /\ OnlyCollector => Excluded
      BY DEF IInv, ScrapesOK, Mutex, Places, Alone, OnlyCollector, Excluded
<1> QED
    BY <1>1, <1>2, Inductive, OnlyCollectorStep, PTL DEF Spec

\* A lookup always finds options, however many scrapes write the map
\* (keystone.go:165-171).
THEOREM LookupSucceeds == Spec => []OptionsFound
<1>1. IInv => OptionsFound
      BY DEF IInv
<1> QED
    BY <1>1, Inductive, PTL

\* Scrapes that do not overlap use the options of their own cloud as soon as they
\* have stored those of identity, or if nobody has (keystone.go:165-168).
THEOREM OwnOptions == Spec => []OwnWhenTrusted
<1>1. IInv => OwnWhenTrusted
      BY DEF IInv
<1> QED
    BY <1>1, Inductive, PTL

---------------------------------------------------------------------------
(* Every scrape comes to its end.                                          *)

\* The services that a scrape has still to enable.
Rest(h) == Len(order[h]) + 1 - next[h]

\* The steps for one of them; the collector gathers it before it takes up the next.
Place(h) == CASE pc[h] = "enable" -> 4
              [] pc[h] = "lock"   -> 3
              [] pc[h] = "write"  -> 2
              [] pc[h] = "client" -> 1
              [] pc[h] = "gather" -> IF mode = "cached" THEN 5 ELSE 3
              [] OTHER            -> 0

\* In order of importance: the services, the steps for this one, the exporters whose
\* projects have not been asked for, those that read the map.
Less(h) ==
  \/ Rest(h)' < Rest(h)
  \/ /\ Rest(h)' = Rest(h)
     /\ \/ Place(h)' < Place(h)
        \/ /\ Place(h)' = Place(h)
           /\ \/ pending'[h] \subseteq pending[h] /\ pending'[h] # pending[h]
              \/ /\ pending'[h] = pending[h]
                 /\ reading'[h] \subseteq reading[h] /\ reading'[h] # reading[h]

Untouched(h) == UNCHANGED <<Rest(h), Place(h), pending[h], reading[h]>>

\* Nobody sets a scrape back, and one goes on, begins, or ends the process.
Descends ==
  /\ \A h \in Handlers : pc[h] # "idle" => Less(h) \/ Untouched(h)
  /\ \/ \E h \in Handlers : pc[h] # "idle" /\ Less(h)
     \/ \E h \in Handlers : pc[h] = "idle" /\ pc'[h] = "enable"
     \/ exited'

\* The guards of the steps of a scrape, Lock apart.
Ready(h) ==
  \/ pc[h] \in {"enable", "write", "client"}
  \/ pc[h] = "gather" /\ pending[h] \cup reading[h] \subseteq Services

\* A scrape that cannot go on waits for the mutex, and its holder can.
NobodyStuck ==
  ~exited =>
    \A h \in Handlers : pc[h] # "idle" /\ ~Ready(h) =>
      /\ pc[h] = "lock"
      /\ mu = Free \/ \E g \in Handlers \ {h} : mu = g /\ pc[g] = "write"

\* The numbers are numbers.
LEMMA RestType ==
  ASSUME IInv, NEW h \in Handlers
  PROVE  Rest(h) \in Nat /\ Place(h) \in 0..5
<1>1. Len(order[h]) \in Nat /\ next[h] \in Nat /\ next[h] <= Len(order[h]) + 1
      BY LenType DEF IInv, ListsOK
<1> QED
    BY <1>1 DEF Rest, Place

\* A step of one scrape takes place in that scrape alone.
LEMMA OthersUntouched ==
  ASSUME IInv, NEW h \in Handlers, Lock(h) \/ Step(h), NEW g \in Handlers \ {h}
  PROVE  Untouched(g)
<1>1. /\ UNCHANGED mode
      /\ UNCHANGED <<pc[g], next[g], order[g], pending[g], reading[g]>>
      BY DEF Step, Lock, EnableFails, Authenticated, Write, Enabled, ClientFails,
             AllEnabled, Gathered, ReadStart, ReadSkipped, ReadEnd, IInv, ScrapesOK, ListsOK
<1> QED
    BY <1>1 DEF Untouched, Rest, Place

\* And leaves less of it to do.
LEMMA ScrapeFalls ==
  ASSUME IInv, NEW h \in Handlers, Lock(h) \/ Step(h)
  PROVE  pc[h] # "idle" /\ (Less(h) \/ exited')
<1> USE DEF IInv, ScrapesOK, ListsOK
<1>1. Rest(h) \in Nat
      BY RestType
<1>2. CASE EnableFails(h) \/ Enabled(h) \/ ClientFails(h)
      <2>1. /\ pc[h] \in {"enable", "client"} /\ order' = order
            /\ next'[h] = next[h] + 1
            BY <1>2 DEF EnableFails, Enabled, ClientFails
      <2>2. Len(order[h]) \in Nat /\ next[h] \in Nat
            BY LenType
      <2>3. Rest(h)' < Rest(h)
            BY <2>1, <2>2 DEF Rest
      <2> QED
          BY <2>1, <2>3 DEF Less
<1>3. CASE Authenticated(h) \/ Lock(h) \/ Write(h) \/ AllEnabled(h) \/ Gathered(h)
      <2>1. /\ order' = order /\ next' = next /\ mode' = mode
            /\ \/ pc[h] = "enable" /\ pc'[h] = "lock"
               \/ pc[h] = "lock" /\ pc'[h] = "write"
               \/ pc[h] = "write" /\ pc'[h] = "client"
               \/ pc[h] = "enable" /\ pc'[h] = "idle"
               \/ pc[h] = "enable" /\ pc'[h] = "gather" /\ mode # "cached"
               \/ pc[h] = "enable" /\ exited'
               \/ pc[h] = "gather" /\ pc'[h] = IF mode = "cached" THEN "enable" ELSE "idle"
            BY <1>3 DEF Authenticated, Lock, Write, AllEnabled, Gathered
      <2>2. Rest(h)' = Rest(h)
            BY <2>1 DEF Rest
      <2>3. Place(h)' < Place(h) \/ exited'
            BY <2>1 DEF Place
      <2> QED
          BY <2>1, <2>2, <2>3 DEF Less
<1>4. ASSUME NEW s \in Services, ReadStart(h, s) \/ ReadSkipped(h, s) \/ ReadEnd(h, s)
      PROVE  pc[h] # "idle" /\ Less(h)
      <2>1. /\ pc[h] = "gather" /\ pc' = pc /\ order' = order /\ next' = next /\ mode' = mode
            /\ \/ s \in pending[h] /\ pending'[h] = pending[h] \ {s}
               \/ /\ pending'[h] = pending[h]
                  /\ s \in reading[h] /\ reading'[h] = reading[h] \ {s}
            BY <1>4 DEF ReadStart, ReadSkipped, ReadEnd, Places
      <2>2. Rest(h)' = Rest(h) /\ Place(h)' = Place(h)
            BY <2>1 DEF Rest, Place
      <2> QED
          BY <2>1, <2>2 DEF Less
<1> QED
    BY <1>2, <1>3, <1>4 DEF Step

\* The exit of the process is no step back of the scrape it comes from.
LEMMA ExitsInPlace ==
  ASSUME IInv, NEW h \in Handlers, Lock(h) \/ Step(h), exited', ~Less(h)
  PROVE  Untouched(h)
<1>1. ~exited
      BY DEF Step, Lock, EnableFails, Authenticated, Write, Enabled, ClientFails,
             AllEnabled, Gathered, ReadStart, ReadSkipped, ReadEnd
<1>2. AllEnabled(h)
      BY <1>1 DEF Step, Lock, EnableFails, Authenticated, Write, Enabled, ClientFails,
             AllEnabled, Gathered, ReadStart, ReadSkipped, ReadEnd
<1>3. UNCHANGED <<mode, pc, next, order, pending, reading>>
      BY <1>1, <1>2 DEF AllEnabled
<1> QED
    BY <1>3 DEF Untouched, Rest, Place

\* No scrape goes on for ever: every step of one leaves less of it to do and none sets
\* another back, however many run at a time and whatever fails (utils.go:125-139,
\* keystone.go:157-171, cache/utils.go:21-105).
THEOREM ScrapesDescend ==
  Spec => [](\A h \in Handlers : Rest(h) \in Nat) /\ [][Descends]_vars
<1>1. ASSUME IInv, [Next]_vars, vars' # vars PROVE Descends
      <2>1. ASSUME NEW h \in Handlers, NEW c \in Clouds, NEW o \in Orders, Begin(h, c, o)
            PROVE  Descends
            <3>1. pc[h] = "idle" /\ pc'[h] = "enable"
                  BY <1>1, <2>1 DEF Begin, IInv, ScrapesOK
            <3>2. ASSUME NEW g \in Handlers \ {h} PROVE Untouched(g)
                  <4>1. /\ UNCHANGED mode
                        /\ UNCHANGED <<pc[g], next[g], order[g], pending[g], reading[g]>>
                        BY <1>1, <2>1 DEF Begin, IInv, ScrapesOK, ListsOK
                  <4> QED
                      BY <4>1 DEF Untouched, Rest, Place
            <3> QED
                BY <3>1, <3>2 DEF Descends
      <2>2. ASSUME NEW h \in Handlers, Lock(h) \/ Step(h) PROVE Descends
            <3>1. CASE exited'
                  <4>1. CASE Less(h)
                        BY <1>1, <2>2, <3>1, <4>1, OthersUntouched DEF Descends
                  <4>2. CASE ~Less(h)
                        <5>1. Untouched(h)
                              BY <1>1, <2>2, <3>1, <4>2, ExitsInPlace
                        <5> QED
                            BY <1>1, <2>2, <3>1, <5>1, OthersUntouched DEF Descends
                  <4> QED
                      BY <4>1, <4>2
            <3>2. CASE ~exited'
                  BY <1>1, <2>2, <3>2, ScrapeFalls, OthersUntouched DEF Descends
            <3> QED
                BY <3>1, <3>2
      <2> QED
          BY <1>1, <2>1, <2>2 DEF Next, Stopped
<1>2. IInv => \A h \in Handlers : Rest(h) \in Nat
      BY RestType
<1>3. IInv /\ [Next]_vars => [Descends]_vars
      BY <1>1
<1> QED
    BY <1>2, <1>3, Inductive, PTL DEF Spec

\* And none is stuck: whoever cannot go on waits for endpointOptsV2Mu, which is free or
\* held by a scrape that is about to give it back; nobody waits while it holds the mutex
\* (utils.go:134-139).
THEOREM MutexComesFree == Spec => []NobodyStuck
<1>1. ASSUME IInv, NEW h \in Handlers, pc[h] # "idle", ~Ready(h)
      PROVE  pc[h] = "lock" /\ (mu = Free \/ \E g \in Handlers \ {h} : mu = g /\ pc[g] = "write")
      <2>1. pc[h] = "lock"
            BY <1>1 DEF IInv, ScrapesOK, Stores, Ready
      <2> QED
          BY <1>1, <2>1 DEF IInv, Mutex
<1>2. IInv => NobodyStuck
      BY <1>1 DEF NobodyStuck
<1> QED
    BY <1>2, Inductive, PTL

===========================================================================
