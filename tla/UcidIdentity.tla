---------------------------- MODULE UcidIdentity ----------------------------
(***************************************************************************)
(* The identity of the device in the agent: WindowsConfiguration caches id, *)
(* token and URLs; UpdateUCID() fetches them from the identity library,     *)
(* which UCIDApiDll loads for the time of the update and frees again. The   *)
(* public calls hold m_ucidMutex throughout.                                *)
(*                                                                         *)
(* A value is known by its age: "new" if the last update fetched it, "old"  *)
(* if an earlier one did, "none" for an empty string, "garbage" for what a  *)
(* fetch leaves behind whose second call into the library failed: the       *)
(* buffer is copied although it was never written. Everything may fail: the *)
(* registry entry, the signature, LoadLibrary(), the look-up of a function, *)
(* and every call into the library.                                        *)
(***************************************************************************)
EXTENDS Naturals

CONSTANTS
  Caller,       (* threads that ask for the identity                          *)
  NoCaller      (* owner of a free mutex                                      *)

ASSUME IdentityAssumption == NoCaller \notin Caller

VARIABLES
  (* WindowsConfiguration *)
  m_token, m_ucid, m_urls,
  m_ucidMutex,
  (* UCIDApiDll *)
  m_api,             (* TRUE if the library is loaded                         *)
  func,              (* the function pointers                                 *)
  m_isModuleLoaded,
  complete,          (* history: the library that is loaded has all functions *)
  (* the callers *)
  pc, op, ret,       (* where each is, in which call, with which result       *)
  crashed,           (* the pointer a fatal call went through, or "no"        *)
  alive              (* FALSE once the objects are destroyed                  *)

valueVars == <<m_token, m_ucid, m_urls>>
dllVars   == <<m_api, func, m_isModuleLoaded, complete>>
vars == <<valueVars, m_ucidMutex, dllVars, pc, op, ret, crashed, alive>>

Value == {"none", "old", "new", "garbage"}
Real  == {"old", "new"}
Url   == {"event", "checkin", "catalog"}
Op    == {"GetIdentityToken", "GetUcIdentity", "GetPmUrls", "RefreshIdentity"}

(* The functions, and the order in which LoadDll() binds them.                *)
Func  == {"getId", "getToken", "refreshToken", "getUrl"}
Order == [f \in Func |-> CASE f = "getId"        -> 1
                           [] f = "getToken"     -> 2
                           [] f = "refreshToken" -> 3
                           [] f = "getUrl"       -> 4]

GoTo(c, place) == pc' = [pc EXCEPT ![c] = place]

(* UpdateUCID() is successful if every fetch was.                             *)
Combined(c, ok) == ret[c] /\ ok

Result(c, ok) == ret' = [ret EXCEPT ![c] = Combined(c, ok)]

-----------------------------------------------------------------------------
(* UCIDApiDll: LoadApi() and UnloadApi().                                     *)

(* The pointers when the n-th function is not found: LoadDll() throws.        *)
BoundUpTo(n) ==
  [f \in Func |-> IF Order[f] < n THEN "bound"
                  ELSE IF Order[f] = n THEN "null" ELSE func[f]]

AllBound == [f \in Func |-> "bound"]

(* A failed bind is caught in LoadApi(), which then sets the flag although    *)
(* it returns false.                                                          *)
LoadApi(returns) ==
  \/ /\ m_isModuleLoaded
     /\ returns
     /\ UNCHANGED dllVars
  \/ /\ ~m_isModuleLoaded
     /\ returns
     /\ m_api' = TRUE
     /\ func' = AllBound
     /\ m_isModuleLoaded' = TRUE
     /\ complete' = TRUE
  \/ /\ ~m_isModuleLoaded
     /\ ~returns
     /\ UNCHANGED dllVars
  \/ /\ ~m_isModuleLoaded
     /\ ~returns
     /\ m_api' = TRUE
     /\ \E n \in 1..4 : func' = BoundUpTo(n)
     /\ m_isModuleLoaded' = TRUE
     /\ complete' = FALSE

BugPointersKept == [f \in Func |-> IF func[f] = "bound" THEN "stale" ELSE func[f]]

(* UnloadDll() resets the pointers, but not m_getUrlFunc.                      *)
Unbound ==
  [f \in Func |-> IF f # "getUrl" THEN "null"
                  ELSE IF func[f] = "bound" THEN "stale" ELSE func[f]]

BugLibraryKept == UNCHANGED m_api

LibraryFreed == m_api' = FALSE

UnloadApi ==
  /\ IF m_api
     THEN LibraryFreed /\ func' = Unbound /\ complete' = TRUE
     ELSE UNCHANGED <<m_api, func, complete>>
  /\ m_isModuleLoaded' = FALSE

(* A call through a null pointer ends the process; one into a library that is *)
(* gone may, or may find the library mapped at the same place again.          *)
Crash(f) ==
  /\ func[f] # "bound"
  /\ crashed' = func[f]
  /\ UNCHANGED <<valueVars, m_ucidMutex, dllVars, pc, op, ret, alive>>

Callable(f) == func[f] # "null"

-----------------------------------------------------------------------------
(* The calls of WindowsConfiguration.                                         *)

Call(c, o) ==
  /\ pc[c] = "idle"
  /\ GoTo(c, "lock")
  /\ op' = [op EXCEPT ![c] = o]
  /\ UNCHANGED <<valueVars, m_ucidMutex, dllVars, ret, crashed, alive>>

BugOneUrlMissing == m_urls["catalog"] = "none"

UrlsMissing == \E u \in Url : m_urls[u] = "none"

(* Both getters of identity and token look at the identity only.              *)
NeedsUpdate(o) ==
  \/ o = "RefreshIdentity"
  \/ o \in {"GetIdentityToken", "GetUcIdentity"} /\ m_ucid = "none"
  \/ o = "GetPmUrls" /\ UrlsMissing

Aged(v) == IF v = "new" THEN "old" ELSE v

BugNoLock == TRUE

MutexFree == m_ucidMutex = NoCaller

Lock(c) ==
  /\ pc[c] = "lock"
  /\ MutexFree
  /\ m_ucidMutex' = c
  /\ ret' = [ret EXCEPT ![c] = TRUE]
  /\ \/ /\ NeedsUpdate(op[c])
        /\ GoTo(c, "load")
        /\ m_token' = Aged(m_token)
        /\ m_ucid' = Aged(m_ucid)
        /\ m_urls' = [u \in Url |-> Aged(m_urls[u])]
     \/ /\ ~NeedsUpdate(op[c])
        /\ GoTo(c, "return")
        /\ UNCHANGED valueVars
  /\ UNCHANGED <<dllVars, op, crashed, alive>>

(* When the library cannot be loaded, the update is skipped and its result    *)
(* stays TRUE.                                                                *)
UpdateLoad(c) ==
  /\ pc[c] = "load"
  /\ \E loaded \in BOOLEAN :
       /\ LoadApi(loaded)
       /\ GoTo(c, IF loaded THEN "refresh" ELSE "skipped")
  /\ UNCHANGED <<valueVars, m_ucidMutex, op, ret, crashed, alive>>

(* Each fetch begins with LoadApi(), which does nothing: the flag is up.      *)
RefreshToken(c) ==
  /\ pc[c] = "refresh"
  /\ \/ Crash("refreshToken")
     \/ /\ Callable("refreshToken")
        /\ \E ok \in BOOLEAN : Result(c, ok)
        /\ GoTo(c, "token")
        /\ UNCHANGED <<valueVars, m_ucidMutex, dllVars, op, crashed, alive>>

(* What GetId() and GetToken() leave after a second call that failed.         *)
Unwritten == "garbage"

(* GetId() and GetToken() call without a buffer and, if the answer is that    *)
(* the buffer is too small, again with one. The value is left alone when the  *)
(* first call answers anything else, success included, or when malloc()       *)
(* fails. A second call that succeeds is taken to have written the value.     *)
Fetched(c, value) ==
  \/ value' = "new" /\ Result(c, TRUE)
  \/ UNCHANGED value /\ \E ok \in BOOLEAN : Result(c, ok)
  \/ value' = Unwritten /\ Result(c, FALSE)

GetToken(c) ==
  /\ pc[c] = "token"
  /\ \/ Crash("getToken")
     \/ /\ Callable("getToken")
        /\ Fetched(c, m_token)
        /\ GoTo(c, "id")
        /\ UNCHANGED <<m_ucid, m_urls, m_ucidMutex, dllVars, op, crashed, alive>>

GetId(c) ==
  /\ pc[c] = "id"
  /\ \/ Crash("getId")
     \/ /\ Callable("getId")
        /\ Fetched(c, m_ucid)
        /\ GoTo(c, "urls")
        /\ UNCHANGED <<m_token, m_urls, m_ucidMutex, dllVars, op, crashed, alive>>

(* GetUrls() fetches each URL on its own, with a buffer from the first call   *)
(* on, and changes those it gets.                                             *)
GetUrls(c) ==
  /\ pc[c] = "urls"
  /\ \/ Crash("getUrl")
     \/ /\ Callable("getUrl")
        /\ \E got \in SUBSET Url :
             /\ m_urls' = [u \in Url |-> IF u \in got THEN "new" ELSE m_urls[u]]
             /\ Result(c, got = Url)
        /\ GoTo(c, "unload")
        /\ UNCHANGED <<m_token, m_ucid, m_ucidMutex, dllVars, op, crashed, alive>>

UpdateUnload(c) ==
  /\ pc[c] = "unload"
  /\ UnloadApi
  /\ GoTo(c, "return")
  /\ UNCHANGED <<valueVars, m_ucidMutex, op, ret, crashed, alive>>

(* The value is copied under the mutex.                                       *)
Return(c) ==
  /\ pc[c] \in {"return", "skipped"}
  /\ m_ucidMutex' = NoCaller
  /\ GoTo(c, "idle")
  /\ UNCHANGED <<valueVars, dllVars, op, ret, crashed, alive>>

(* ~WindowsConfiguration() with ~UCIDApiDll().                                *)
Destroy ==
  /\ crashed = "no"
  /\ alive
  /\ \A c \in Caller : pc[c] = "idle"
  /\ UnloadApi
  /\ alive' = FALSE
  /\ UNCHANGED <<valueVars, m_ucidMutex, pc, op, ret, crashed>>

-----------------------------------------------------------------------------
UpdateSteps(c) ==
  UpdateLoad(c) \/ RefreshToken(c) \/ GetToken(c) \/ GetId(c) \/ GetUrls(c) \/ UpdateUnload(c)

Terminated == (crashed # "no" \/ ~alive) /\ UNCHANGED vars

Init ==
  /\ m_token = "none"
  /\ m_ucid = "none"
  /\ m_urls = [u \in Url |-> "none"]
  /\ m_ucidMutex = NoCaller
  /\ m_api = FALSE
  /\ func = [f \in Func |-> "null"]
  /\ m_isModuleLoaded = FALSE
  /\ complete = TRUE
  /\ pc = [c \in Caller |-> "idle"]
  /\ op = [c \in Caller |-> "RefreshIdentity"]
  /\ ret = [c \in Caller |-> FALSE]
  /\ crashed = "no"
  /\ alive = TRUE

CallerStep(c) ==
  /\ crashed = "no"
  /\ alive
  /\ \/ \E o \in Op : Call(c, o)
     \/ Lock(c)
     \/ UpdateSteps(c)
     \/ Return(c)

Next == (\E c \in Caller : CallerStep(c)) \/ Destroy \/ Terminated

Spec == Init /\ [][Next]_vars

-----------------------------------------------------------------------------
(* Properties. A call hands over its value in the place "return", or, when the *)
(* library could not be loaded for it, in the place "skipped".                 *)

Updating == {"refresh", "token", "id", "urls", "unload"}
Place    == {"idle", "lock", "load", "skipped", "return"} \cup Updating

(* The variables have their types.                                            *)
TypeOK ==
  /\ m_token \in Value /\ m_ucid \in Value /\ m_urls \in [Url -> Value]
  /\ m_ucidMutex \in Caller \cup {NoCaller}
  /\ m_api \in BOOLEAN
  /\ func \in [Func -> {"null", "bound", "stale"}]
  /\ m_isModuleLoaded \in BOOLEAN
  /\ complete \in BOOLEAN
  /\ pc \in [Caller -> Place]
  /\ op \in [Caller -> Op]
  /\ ret \in [Caller -> BOOLEAN]
  /\ crashed \in {"no", "null", "stale"}
  /\ alive \in BOOLEAN

(* The library is loaded only while a caller is in an update; otherwise it     *)
(* could not be replaced. The exception is a library that lacks a function:   *)
(* LoadApi() keeps it although it fails, until the next update or the end.    *)
LibraryReleased ==
  m_api => alive /\ (~complete \/ \E c \in Caller : pc[c] \in Updating)

(* The pointer into the freed library that UnloadDll() forgets is not used,    *)
(* whatever is missing in a library that is loaded later: another function,   *)
(* called before, is missing too.                                             *)
NoStaleCall == crashed # "stale"

(* A call goes through a null pointer only if the library that is loaded lacks *)
(* a function: no caller frees the library while another one is in it.        *)
NoBadCall == crashed = "no" \/ ~complete

(* "Refreshes the UCID and UCID token values": when RefreshIdentity() returns  *)
(* true, this call has fetched both. The code does not keep it.               *)
RefreshIsFresh ==
  \A c \in Caller :
    pc[c] \in {"return", "skipped"} /\ op[c] = "RefreshIdentity" /\ ret[c] =>
      m_token = "new" /\ m_ucid = "new"

(* When GetPmUrls() returns true, it returns all three URLs, fetched by this   *)
(* call or an earlier one, whichever calls into the library failed. The       *)
(* exception is a call for which the library could not be loaded.             *)
ServedUrlsAreReal ==
  \A c \in Caller :
    pc[c] = "return" /\ op[c] = "GetPmUrls" /\ ret[c] => \A u \in Url : m_urls[u] \in Real

-----------------------------------------------------------------------------
(* The inductive invariant.                                                   *)

(* The owner of the mutex is the one who is in a call.                        *)
MutexFits ==
  /\ \A c \in Caller : pc[c] \notin {"idle", "lock"} <=> m_ucidMutex = c
  /\ ~alive => m_ucidMutex = NoCaller

(* Flag and library agree; pointers are bound only into a loaded library, all  *)
(* of them if it is complete, and then a caller is in an update.              *)
DllFits ==
  /\ m_isModuleLoaded = m_api
  /\ ~alive => ~m_api
  /\ ~m_api => \A f \in Func : func[f] # "bound"
  /\ ~m_api => complete
  /\ complete /\ m_api => func = AllBound /\ \E c \in Caller : pc[c] \in Updating
  /\ \A c \in Caller : pc[c] \in Updating => m_api

(* Only m_getUrlFunc can be stale; when it is in a library that is loaded, the *)
(* function an update calls first is missing.                                 *)
StaleFits ==
  /\ \A f \in Func : func[f] = "stale" => f = "getUrl" /\ func["refreshToken"] = "null"
  /\ \A c \in Caller : pc[c] \in Updating \ {"refresh"} => func["refreshToken"] # "null"

(* A successful update has fetched the URLs; a call that returns them has all. *)
UrlsFit ==
  /\ \A u \in Url : m_urls[u] # "garbage"
  /\ \A c \in Caller : ret[c] =>
       /\ pc[c] = "unload" => ~UrlsMissing
       /\ pc[c] = "return" /\ op[c] = "GetPmUrls" => ~UrlsMissing

IInv ==
  /\ TypeOK /\ MutexFits /\ DllFits /\ StaleFits /\ UrlsFit
  /\ NoStaleCall /\ NoBadCall
=============================================================================
