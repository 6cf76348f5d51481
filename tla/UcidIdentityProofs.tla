------------------------- MODULE UcidIdentityProofs -------------------------
(***************************************************************************)
(* Theorems about UcidIdentity, for any set of callers.                     *)
(*                                                                         *)
(* The argument: IInv is inductive. The mutex is held throughout a call     *)
(* (MutexFits), so a step inside an update is that of the only caller who   *)
(* is in one: the library stays as it has found it (DllFits, StaleFits) and *)
(* its result speaks of the URLs it has fetched (UrlsFit).                  *)
(***************************************************************************)
EXTENDS UcidIdentity, TLAPS

LEMMA InitIInv == Init => IInv
  <1> SUFFICES ASSUME Init
               PROVE  IInv
    OBVIOUS
  <1>1. \A c \in Caller : pc[c] = "idle" /\ ~ret[c]
    BY DEF Init
  <1>2. TypeOK /\ MutexFits
    BY IdentityAssumption, <1>1 DEF Init, TypeOK, MutexFits, Value, Op, Place
  <1>3. \A f \in Func : func[f] = "null"
    BY DEF Init
  <1>4. DllFits
    BY <1>1, <1>3 DEF Init, DllFits, Updating
  <1>5. StaleFits
    BY <1>1, <1>3 DEF StaleFits, Updating
  <1>6. UrlsFit
    BY <1>1 DEF Init, UrlsFit
  <1> QED
    BY <1>2, <1>4, <1>5, <1>6 DEF Init, IInv, NoStaleCall, NoBadCall

(* Two callers are not inside at once.                                        *)
LEMMA OneInside ==
  ASSUME TypeOK, MutexFits, NEW c \in Caller, pc[c] \notin {"idle", "lock"}
  PROVE  /\ m_ucidMutex = c
         /\ alive
         /\ \A d \in Caller : d # c => pc[d] \in {"idle", "lock"}
  BY IdentityAssumption DEF MutexFits, TypeOK

(* The steps outside an update: a call begins, waits, or returns.             *)
LEMMA OuterStep ==
  ASSUME IInv, crashed = "no", alive, NEW c \in Caller,
         (\E o \in Op : Call(c, o)) \/ Lock(c) \/ Return(c)
  PROVE  IInv'
  <1> USE IdentityAssumption DEF GoTo
  <1>inv. TypeOK /\ MutexFits /\ DllFits /\ StaleFits /\ UrlsFit
    BY DEF IInv
  <1>1. ASSUME NEW o \in Op, Call(c, o)
        PROVE  IInv'
    <2>1. TypeOK' /\ MutexFits'
      BY <1>1, <1>inv DEF Call, TypeOK, MutexFits, valueVars, dllVars, Place
    <2>2. DllFits' /\ StaleFits'
      BY <1>1, <1>inv DEF Call, TypeOK, DllFits, StaleFits, dllVars, Updating, AllBound
    <2>3. UrlsFit'
      BY <1>1, <1>inv DEF Call, TypeOK, UrlsFit,
                          UrlsMissing, valueVars
    <2> QED
      BY <2>1, <2>2, <2>3, <1>1 DEF IInv, NoStaleCall, NoBadCall, Call
  <1>2. CASE Lock(c)
    <2>1. TypeOK' /\ MutexFits'
      <3>1. \A v \in Value : Aged(v) \in Value
        BY DEF Aged, Value
      <3>2. TypeOK'
        BY <1>2, <1>inv, <3>1 DEF Lock, TypeOK, valueVars, dllVars, Place
      <3>3. \A d \in Caller : pc[d] \in {"idle", "lock"}
        BY <1>2, <1>inv DEF Lock, MutexFree, MutexFits
      <3>4. MutexFits'
        BY <1>2, <1>inv, <3>3 DEF Lock, TypeOK, MutexFits
      <3> QED
        BY <3>2, <3>4
    <2>2. DllFits' /\ StaleFits'
      BY <1>2, <1>inv DEF Lock, TypeOK, DllFits, StaleFits, dllVars, Updating, AllBound
    <2>3. \A d \in Caller : pc[d] \in {"idle", "lock"}
      BY <1>2, <1>inv DEF Lock, MutexFree, MutexFits
    <2>4. UrlsFit'
      BY <1>2, <1>inv, <2>3 DEF Lock, TypeOK, UrlsFit, NeedsUpdate, UrlsMissing, valueVars,
                                Aged, Op
    <2> QED
      BY <2>1, <2>2, <2>4, <1>2 DEF IInv, NoStaleCall, NoBadCall, Lock
  <1>3. CASE Return(c)
    <2>1. \A d \in Caller : d # c => pc[d] \in {"idle", "lock"}
      BY <1>3, <1>inv, OneInside DEF Return
    <2>2. TypeOK' /\ MutexFits'
      BY <1>3, <1>inv, <2>1 DEF Return, TypeOK, MutexFits, valueVars, dllVars, Place
    <2>3. DllFits' /\ StaleFits'
      BY <1>3, <1>inv DEF Return, TypeOK, DllFits, StaleFits, dllVars, Updating, AllBound
    <2>4. UrlsFit'
      BY <1>3, <1>inv DEF Return, TypeOK, UrlsFit,
                          UrlsMissing, valueVars
    <2> QED
      BY <2>2, <2>3, <2>4, <1>3 DEF IInv, NoStaleCall, NoBadCall, Return
  <1> QED
    BY <1>1, <1>2, <1>3

(* A call through a pointer that is not bound: the pointer was null, and the   *)
(* library incomplete.                                                        *)
LEMMA CrashStep ==
  ASSUME IInv, crashed = "no", alive, NEW c \in Caller, NEW f \in Func,
         pc[c] \in Updating, pc[c] = "refresh" => f = "refreshToken", Crash(f)
  PROVE  IInv'
  <1>inv. TypeOK /\ MutexFits /\ DllFits /\ StaleFits /\ UrlsFit
    BY DEF IInv
  <1>1. ~complete
    BY <1>inv DEF DllFits, AllBound, Crash, Updating
  <1>2. func[f] # "stale"
    BY <1>inv DEF StaleFits, Updating
  <1>3. TypeOK'
    BY <1>inv, <1>2 DEF Crash, TypeOK, valueVars, dllVars
  <1>4. MutexFits' /\ DllFits' /\ StaleFits' /\ UrlsFit'
    BY <1>inv DEF Crash, MutexFits, DllFits, StaleFits, UrlsFit, UrlsMissing, valueVars,
                  dllVars, AllBound
  <1> QED
    BY <1>1, <1>2, <1>3, <1>4 DEF IInv, NoStaleCall, NoBadCall, Crash, dllVars

(* Loading and freeing the library.                                           *)
LEMMA LibraryStep ==
  ASSUME IInv, crashed = "no", alive, NEW c \in Caller, UpdateLoad(c) \/ UpdateUnload(c)
  PROVE  IInv'
  <1> USE IdentityAssumption DEF GoTo
  <1>inv. TypeOK /\ MutexFits /\ DllFits /\ StaleFits /\ UrlsFit
    BY DEF IInv
  <1>one. \A d \in Caller : d # c => pc[d] \in {"idle", "lock"}
    BY <1>inv, OneInside DEF UpdateLoad, UpdateUnload
  <1>same. UNCHANGED <<valueVars, m_ucidMutex, op, ret, crashed, alive>>
    BY DEF UpdateLoad, UpdateUnload
  <1>1. CASE UpdateLoad(c)
    <2>1. PICK loaded \in BOOLEAN :
            LoadApi(loaded) /\ pc' = [pc EXCEPT ![c] = IF loaded THEN "refresh" ELSE "skipped"]
      BY <1>1 DEF UpdateLoad
    <2>2. pc[c] = "load"
      BY <1>1 DEF UpdateLoad
    <2>3. \A n \in 1..4 : BoundUpTo(n) \in [Func -> {"null", "bound", "stale"}]
      BY <1>inv DEF BoundUpTo, TypeOK
    <2>4. TypeOK' /\ MutexFits'
      BY <2>1, <2>2, <2>3, <1>same, <1>inv
      DEF LoadApi, TypeOK, MutexFits, AllBound, dllVars, valueVars, Place, Updating
    <2>5. DllFits'
      <3>1. complete => ~m_api
        BY <1>inv, <1>one, <2>2 DEF DllFits, Updating
      <3>2. /\ \A d \in Caller : pc'[d] \in Updating => d = c /\ loaded
            /\ loaded => pc'[c] \in Updating
        BY <2>1, <2>2, <1>inv, <1>one DEF TypeOK, Updating
      <3>3. CASE UNCHANGED dllVars
        BY <2>1, <3>1, <3>2, <3>3, <1>same, <1>inv DEF LoadApi, DllFits, AllBound, dllVars
      <3>4. CASE m_api' /\ m_isModuleLoaded' /\ loaded /\ func' = AllBound
        BY <3>2, <3>4, <1>same DEF DllFits, AllBound
      <3>5. CASE m_api' /\ m_isModuleLoaded' /\ ~loaded /\ ~complete'
        BY <3>2, <3>5, <1>same DEF DllFits
      <3> QED
        BY <2>1, <3>3, <3>4, <3>5 DEF LoadApi
    <2>6. StaleFits'
      <3>1. \A d \in Caller : pc'[d] \notin Updating \ {"refresh"}
        BY <2>1, <2>2, <1>inv, <1>one DEF TypeOK, Updating
      <3>2. CASE UNCHANGED func
        BY <3>1, <3>2, <1>inv DEF StaleFits
      <3>3. CASE func' = AllBound
        BY <3>1, <3>3 DEF StaleFits, AllBound
      <3>4. ASSUME NEW n \in 1..4, func' = BoundUpTo(n), ~m_isModuleLoaded
            PROVE  StaleFits'
        <4>1. \A f \in Func : func[f] # "bound"
          BY <3>4, <1>inv DEF DllFits
        <4>2. \A f \in Func : func'[f] = "stale" => func[f] = "stale" /\ n < Order[f]
          BY <3>4 DEF BoundUpTo, Order, Func
        <4>3. \A f \in Func : func'[f] = "stale" => f = "getUrl" /\ func["refreshToken"] = "null"
                                                  /\ n < 4
          BY <4>2, <1>inv DEF StaleFits, Order, Func
        <4>4. n < 4 /\ func["refreshToken"] = "null" => func'["refreshToken"] = "null"
          BY <3>4 DEF BoundUpTo, Order, Func
        <4> QED
          BY <3>1, <4>3, <4>4 DEF StaleFits
      <3> QED
        BY <2>1, <3>2, <3>3, <3>4 DEF LoadApi, dllVars
    <2>7. UrlsFit'
      BY <2>1, <2>2, <1>same, <1>inv DEF UrlsFit, UrlsMissing, TypeOK, valueVars
    <2> QED
      BY <2>4, <2>5, <2>6, <2>7, <1>same DEF IInv, NoStaleCall, NoBadCall
  <1>2. CASE UpdateUnload(c)
    <2>1. pc[c] = "unload" /\ pc' = [pc EXCEPT ![c] = "return"] /\ UnloadApi
      BY <1>2 DEF UpdateUnload
    <2>2. m_api /\ m_api' = FALSE /\ func' = Unbound /\ m_isModuleLoaded' = FALSE /\ complete' = TRUE
      BY <2>1, <1>inv DEF UnloadApi, LibraryFreed, DllFits, Updating
    <2>3. TypeOK' /\ MutexFits'
      BY <2>1, <2>2, <1>same, <1>inv DEF TypeOK, MutexFits, Unbound, valueVars, Place
    <2>4. \A d \in Caller : pc'[d] \notin Updating
      BY <2>1, <1>inv, <1>one DEF TypeOK, Updating
    <2>5. DllFits' /\ StaleFits'
      BY <2>2, <2>4, <1>same, <1>inv DEF DllFits, StaleFits, Unbound, Func
    <2>6. UrlsFit'
      BY <2>1, <1>one, <1>same, <1>inv DEF UrlsFit, UrlsMissing, TypeOK, valueVars
    <2> QED
      BY <2>3, <2>5, <2>6, <1>same DEF IInv, NoStaleCall, NoBadCall
  <1> QED
    BY <1>1, <1>2

(* A call into the library that comes back.                                   *)
LEMMA FetchStep ==
  ASSUME IInv, crashed = "no", alive, NEW c \in Caller,
         RefreshToken(c) \/ GetToken(c) \/ GetId(c) \/ GetUrls(c)
  PROVE  IInv'
  <1> USE IdentityAssumption DEF GoTo
  <1>inv. TypeOK /\ MutexFits /\ DllFits /\ StaleFits /\ UrlsFit
    BY DEF IInv
  <1>one. \A d \in Caller : d # c => pc[d] \in {"idle", "lock"}
    BY <1>inv, OneInside DEF RefreshToken, GetToken, GetId, GetUrls
  <1>at. pc[c] \in Updating /\ pc[c] # "unload"
    BY DEF RefreshToken, GetToken, GetId, GetUrls, Updating
  <1>1. CASE \E f \in Func : Crash(f) /\ (pc[c] = "refresh" => f = "refreshToken")
    BY <1>1, <1>at, CrashStep
  <1>2. ASSUME NEW place \in Updating, pc' = [pc EXCEPT ![c] = place], place # "refresh",
               pc[c] = "refresh" => func["refreshToken"] # "null",
               UNCHANGED <<m_ucidMutex, dllVars, op, crashed, alive>>,
               TypeOK', UrlsFit'
        PROVE  IInv'
    <2>1. MutexFits'
      BY <1>2, <1>inv, <1>at DEF TypeOK, MutexFits, Updating
    <2>2. DllFits'
      <3>1. (\E d \in Caller : pc'[d] \in Updating) /\ \E d \in Caller : pc[d] \in Updating
        BY <1>2, <1>inv, <1>at DEF TypeOK
      <3>2. m_api
        BY <1>inv, <1>at DEF DllFits
      <3> QED
        BY <3>1, <3>2, <1>2, <1>inv DEF DllFits, dllVars, AllBound
    <2>3. func["refreshToken"] # "null"
      BY <1>2, <1>inv, <1>at DEF StaleFits
    <2>4. StaleFits'
      BY <2>3, <1>2, <1>inv DEF StaleFits, dllVars
    <2> QED
      BY <1>2, <2>1, <2>2, <2>4 DEF IInv, NoStaleCall, NoBadCall, dllVars
  <1>3. CASE RefreshToken(c) /\ ~Crash("refreshToken")
    <2>1. TypeOK'
      BY <1>3, <1>inv DEF RefreshToken, Result, Combined, TypeOK, Place, Updating, valueVars,
                          dllVars
    <2>2. UrlsFit'
      BY <1>3, <1>inv, <1>one DEF RefreshToken, Result, Combined, TypeOK, UrlsFit,
                                  UrlsMissing, valueVars
    <2> QED
      BY <1>2, <1>3, <2>1, <2>2 DEF RefreshToken, Callable, Updating
  <1>4. CASE GetToken(c) /\ ~Crash("getToken")
    <2>1. TypeOK'
      BY <1>4, <1>inv DEF GetToken, Fetched, Unwritten, Result, Combined, TypeOK, Place,
                          Updating, Value, dllVars
    <2>2. UrlsFit'
      BY <1>4, <1>inv, <1>one DEF GetToken, Fetched, Result, Combined, TypeOK, UrlsFit,
                                  UrlsMissing
    <2> QED
      BY <1>2, <1>4, <2>1, <2>2 DEF GetToken, Updating
  <1>5. CASE GetId(c) /\ ~Crash("getId")
    <2>1. TypeOK'
      BY <1>5, <1>inv DEF GetId, Fetched, Unwritten, Result, Combined, TypeOK, Place,
                          Updating, Value, dllVars
    <2>2. UrlsFit'
      BY <1>5, <1>inv, <1>one DEF GetId, Fetched, Result, Combined, TypeOK, UrlsFit,
                                  UrlsMissing
    <2> QED
      BY <1>2, <1>5, <2>1, <2>2 DEF GetId, Updating
  <1>6. CASE GetUrls(c) /\ ~Crash("getUrl")
    <2>0. PICK got \in SUBSET Url :
            /\ m_urls' = [u \in Url |-> IF u \in got THEN "new" ELSE m_urls[u]]
            /\ ret' = [ret EXCEPT ![c] = ret[c] /\ got = Url]
      BY <1>6 DEF GetUrls, Result, Combined
    <2>1. TypeOK'
      <3>1. m_urls' \in [Url -> Value]
        BY <2>0, <1>inv DEF TypeOK, Value
      <3>2. ret' \in [Caller -> BOOLEAN]
        BY <2>0, <1>inv DEF TypeOK
      <3> QED
        BY <3>1, <3>2, <1>6, <1>inv DEF GetUrls, TypeOK, Place, Updating, dllVars
    <2>2. UrlsFit'
      <3>1. \A d \in Caller : d # c => pc'[d] \in {"idle", "lock"}
        BY <1>6, <1>inv, <1>one DEF GetUrls, TypeOK
      <3>2. pc'[c] = "unload" /\ \A u \in Url : m_urls'[u] # "garbage"
        BY <2>0, <1>6, <1>inv DEF GetUrls, TypeOK, UrlsFit
      <3>3. ret'[c] => got = Url
        BY <2>0, <1>inv DEF TypeOK
      <3>4. ret'[c] => ~UrlsMissing'
        BY <2>0, <3>3 DEF UrlsMissing
      <3> QED
        BY <3>1, <3>2, <3>4 DEF UrlsFit
    <2> QED
      BY <1>2, <1>6, <2>1, <2>2 DEF GetUrls, Updating
  <1> QED
    BY <1>1, <1>3, <1>4, <1>5, <1>6 DEF RefreshToken, GetToken, GetId, GetUrls, Func

(* The destructors.                                                           *)
LEMMA DestroyStep == IInv /\ Destroy => IInv'
  <1> SUFFICES ASSUME IInv, Destroy
               PROVE  IInv'
    OBVIOUS
  <1>inv. TypeOK /\ MutexFits /\ DllFits /\ StaleFits /\ UrlsFit
    BY DEF IInv
  <1>same. UNCHANGED <<valueVars, m_ucidMutex, pc, op, ret, crashed>> /\ alive' = FALSE
    BY DEF Destroy
  <1>0. \A c \in Caller : pc[c] = "idle"
    BY DEF Destroy
  <1>1. /\ m_api' = FALSE /\ m_isModuleLoaded' = FALSE
        /\ func' \in {func, Unbound}
        /\ m_api => func' = Unbound
        /\ m_api => complete'
        /\ ~m_api => func' = func /\ complete' = complete
    BY <1>inv DEF Destroy, UnloadApi, LibraryFreed, TypeOK
  <1>2. TypeOK'
    <2>1. Unbound \in [Func -> {"null", "bound", "stale"}]
      BY <1>inv DEF TypeOK, Unbound
    <2> QED
      BY <2>1, <1>1, <1>same, <1>inv DEF TypeOK, valueVars
  <1>3. MutexFits'
    BY <1>0, <1>same, <1>inv DEF MutexFits, TypeOK
  <1>4. DllFits'
    <2>1. \A f \in Func : func'[f] # "bound"
      BY <1>1, <1>inv DEF DllFits, Unbound
    <2> QED
      BY <2>1, <1>0, <1>1, <1>same, <1>inv DEF DllFits, Updating, TypeOK
  <1>6. StaleFits'
    <2>1. \A f \in Func : func'[f] = "stale" => f = "getUrl" /\ func'["refreshToken"] = "null"
      BY <1>1, <1>inv DEF StaleFits, Unbound, Func
    <2> QED
      BY <2>1, <1>0, <1>same DEF StaleFits, Updating
  <1>5. UrlsFit'
    BY <1>same, <1>inv DEF UrlsFit, UrlsMissing,
                           valueVars
  <1> QED
    BY <1>2, <1>3, <1>4, <1>5, <1>6, <1>same DEF IInv, NoStaleCall, NoBadCall, Destroy

LEMMA StepIInv == IInv /\ [Next]_vars => IInv'
  <1>1. IInv /\ UNCHANGED vars => IInv'
    BY DEF IInv, vars, valueVars, dllVars, TypeOK, MutexFits, DllFits, StaleFits, UrlsFit,
           UrlsMissing, NoStaleCall, NoBadCall, AllBound
  <1>2. ASSUME IInv, NEW c \in Caller, CallerStep(c)
        PROVE  IInv'
    BY <1>2, OuterStep, LibraryStep, FetchStep DEF CallerStep, UpdateSteps
  <1> QED
    BY <1>1, <1>2, DestroyStep DEF Next, Terminated

(* The inductive invariant of the identity.                                   *)
THEOREM IdentityInvariant == Spec => []IInv
  BY InitIInv, StepIInv, PTL DEF Spec

(* All variables keep their types.                                            *)
THEOREM IdentityTypes == Spec => []TypeOK
  <1>1. IInv => TypeOK
    BY DEF IInv
  <1> QED
    BY <1>1, IdentityInvariant, PTL

(* A complete library is loaded only for the time of an update:                *)
(* WindowsConfiguration::UpdateUCID().                                        *)
THEOREM LibraryIsReleased == Spec => []LibraryReleased
  <1>1. IInv => LibraryReleased
    BY DEF IInv, DllFits, LibraryReleased
  <1> QED
    BY <1>1, IdentityInvariant, PTL

(* No call goes into a library that has been freed: UCIDApiDll.               *)
THEOREM PointersAreGood == Spec => []NoStaleCall
  <1>1. IInv => NoStaleCall
    BY DEF IInv
  <1> QED
    BY <1>1, IdentityInvariant, PTL

(* A call goes through a null pointer only if the library lacks a function, so *)
(* no caller frees it under another one: UCIDApiDll, m_ucidMutex.              *)
THEOREM CallsAreBound == Spec => []NoBadCall
  <1>1. IInv => NoBadCall
    BY DEF IInv
  <1> QED
    BY <1>1, IdentityInvariant, PTL

(* GetPmUrls() returns true only with all three URLs, whichever calls into the *)
(* library fail, unless the library itself cannot be loaded for this call:     *)
(* WindowsConfiguration::GetPmUrls() and UCIDApiDll::GetUrls().               *)
THEOREM ServedUrlsAreWhole == Spec => []ServedUrlsAreReal
  <1>1. IInv => ServedUrlsAreReal
    BY DEF IInv, UrlsFit, UrlsMissing, ServedUrlsAreReal, TypeOK, Value, Real
  <1> QED
    BY <1>1, IdentityInvariant, PTL
=============================================================================
