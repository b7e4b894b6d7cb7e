---------------------------- MODULE LibraryObjects ----------------------------
(***************************************************************************)
(* The libraries of hw/i386/shadps4-hle.c and its services files: network,   *)
(* HTTP, web API, trophies, codecs, fonts and so on.  Their objects share    *)
(* one table with the synchronisation objects.  An object is made in the     *)
(* first vacant slot; it may belong to another one and goes when that one    *)
(* goes; HTTP requests and players hold a handle of the application.         *)
(*                                                                          *)
(* Every guest call runs under the BQL, so one call is one action.  A call   *)
(* that fails before it changes anything, and one that makes an object and   *)
(* deletes it again because the guest cannot be told, is not an action; nor  *)
(* is one that only reads, or writes a number that no other call looks at.   *)
(***************************************************************************)
EXTENDS FiniteSets, Integers

CONSTANTS
    Slot,      \* the slots of the table from 1 on; SHADPS4_HLE_MAX_SERVICE_OBJECTS
    AppHandle, \* handles of the application, which uses closed ones again
    NoLoan,    \* -1
    Place,     \* pads, callbacks of netctl, devices of the VR tracker
    Trophy,
    MaxAuth,   \* requests for tokens at a time, 16
    Depth,     \* bound: blocks in a queue of Audio3d, readers of a lock
    Mixes      \* bound: which libraries titles use together

ASSUME LibraryAssumption ==
    /\ Slot \subseteq Nat \ {0} /\ Place \subseteq Nat
    /\ NoLoan \notin AppHandle /\ MaxAuth \in Nat /\ Depth \in Nat

NoSlot == 0

VARIABLES
    libraries, \* what the title uses; never changes
    \* the table of objects
    kinds,     \* service_objects
    parents,   \* service_parents
    hosts,     \* service_host_handles
    columns,   \* service_value, _user_data, _active, _nonblock, _content_length
    \* the libraries
    started,   \* the ones that are initialised, and "playgo open"
    taken,     \* pad_open, netctl_callbacks, vr_tracker_handles
    trophies,  \* trophy_flags
    cleaned,   \* cleanup_done
    \* the application
    lent,      \* the handles it has open
    \* what an observer notes
    abandoned, \* open handles whose close was refused, or left by a reset
    earned     \* what the title unlocked in the trophy context of a slot

libraryVars == <<libraries, kinds, parents, hosts, columns, started, taken,
                 trophies, cleaned, lent, abandoned, earned>>
objects   == <<kinds, parents, hosts, columns>>
switches  == <<started, taken>>
trophySet == <<trophies, earned>>
loans     == <<lent, abandoned>>

Vacant     == "none"
FlagSets   == {"pad", "netctl", "vr"}
Blank      == [refers |-> NoSlot, state |-> "idle", nonblock |-> FALSE, level |-> 0]

LibraryInit ==
    /\ libraries \in Mixes
    /\ kinds = [s \in Slot |-> Vacant] /\ parents = [s \in Slot |-> NoSlot]
    /\ hosts = [s \in Slot |-> NoLoan] /\ columns = [s \in Slot |-> Blank]
    /\ started = {} /\ taken = [f \in FlagSets |-> {}]
    /\ trophies = [s \in Slot |-> {}] /\ earned = [s \in Slot |-> {}]
    /\ cleaned = FALSE /\ lent = {} /\ abandoned = {}

Rows ==
    [refers : Slot \cup {NoSlot}, nonblock : BOOLEAN, level : 0 .. Depth,
     state : {"idle", "active", "aborted", "offline", "new", "codec", "locked",
              "sourced", "playing", "registered", "set", "written"}]

LibraryTypeOK ==
    /\ libraries \in Mixes
    /\ kinds \in [Slot -> STRING] /\ parents \in [Slot -> Slot \cup {NoSlot}]
    /\ hosts \in [Slot -> AppHandle \cup {NoLoan}] /\ columns \in [Slot -> Rows]
    /\ started \subseteq STRING /\ taken \in [FlagSets -> SUBSET Place]
    /\ trophies \in [Slot -> SUBSET Trophy] /\ earned \in [Slot -> SUBSET Trophy]
    /\ cleaned \in BOOLEAN /\ abandoned \subseteq lent /\ lent \subseteq AppHandle

----------------------------------------------------------------------------
\* The table

Living(kind) == {s \in Slot : kinds[s] = kind}

FirstVacant == {s \in Living(Vacant) : \A u \in Living(Vacant) : s <= u}

\* shadps4_hle_service_alloc sets three columns; the others are as the last
\* object of the slot left them.
Fills(s, kind, parent) ==
    /\ kinds' = [kinds EXCEPT ![s] = kind]
    /\ parents' = [parents EXCEPT ![s] = parent]
    /\ hosts' = [hosts EXCEPT ![s] = NoLoan]

MakesAs(kind, parent, Given(_)) ==
    /\ \E s \in FirstVacant :
         /\ Fills(s, kind, parent)
         /\ columns' = [columns EXCEPT ![s] = Given(@)]
    /\ UNCHANGED <<libraries, switches, trophySet, cleaned, loans>>

Unset(row) == row

Root(kind) == MakesAs(kind, NoSlot, Unset)
Under(above, kind) == \E p \in Living(above) : MakesAs(kind, p, Unset)

\* The objects that go when some go: these, and all that belong to one that goes.
OneBelow(S) == S \cup {s \in Slot : kinds[s] # Vacant /\ parents[s] \in S}
Below(S) ==
    {s \in Slot : \A D \in SUBSET Slot : S \subseteq D /\ OneBelow(D) = D => s \in D}

\* Closes handles; those the application refuses to close stay open.
Closes(loaned, refused) ==
    /\ lent' = lent \ (loaned \ refused)
    /\ abandoned' = (abandoned \cup loaned) \cap lent'

\* shadps4_hle_service_delete
DeletesBelow(gone, refused) ==
    /\ kinds' = [s \in Slot |-> IF s \in gone THEN Vacant ELSE kinds[s]]
    /\ parents' = [s \in Slot |-> IF s \in gone THEN NoSlot ELSE parents[s]]
    /\ hosts' = [s \in Slot |-> IF s \in gone THEN NoLoan ELSE hosts[s]]
    /\ columns' = [s \in Slot |-> IF s \in gone THEN Blank ELSE columns[s]]
    /\ Closes({hosts[s] : s \in gone} \ {NoLoan}, refused)
    /\ UNCHANGED <<libraries, taken, trophySet, cleaned>>

Deletes(S) == \E refused \in SUBSET lent : DeletesBelow(Below(S), refused)

Deleted(kind) == \E s \in Living(kind) : Deletes({s}) /\ UNCHANGED started

\* a deletion that names the owner too
DeletedFrom(above, kind) ==
    \E s \in Living(kind) : parents[s] \in Living(above) /\ Deletes({s}) /\ UNCHANGED started

\* A call that changes the columns of an object.
Sets(s, row) ==
    /\ columns' = [columns EXCEPT ![s] = row]
    /\ UNCHANGED <<libraries, kinds, parents, hosts, switches, trophySet, cleaned, loans>>

Marks(kind, state) == \E s \in Living(kind) : Sets(s, [columns[s] EXCEPT !.state = state])

Answers(kind, answer) == Marks(kind, answer)

\* Initialises a library, or ends it; what it made goes with some of them.
Starts(library) ==
    /\ library \notin started /\ started' = started \cup {library}
    /\ UNCHANGED <<libraries, objects, taken, trophySet, cleaned, loans>>
EndsAlone(library) ==
    /\ started' = started \ {library}
    /\ UNCHANGED <<libraries, objects, taken, trophySet, cleaned, loans>>
Ends(library, kind) ==
    /\ library \in started /\ started' = started \ {library}
    /\ Deletes(Living(kind))

\* Takes a place, or gives places back.
Takes(flags, p) ==
    /\ p \notin taken[flags] /\ taken' = [taken EXCEPT ![flags] = @ \cup {p}]
    /\ UNCHANGED <<libraries, objects, started, trophySet, cleaned, loans>>
Frees(flags) ==
    /\ \E p \in taken[flags] : taken' = [taken EXCEPT ![flags] = @ \ {p}]
    /\ UNCHANGED <<libraries, objects, started, trophySet, cleaned, loans>>
EndsPlaces(flags) ==
    /\ flags \in started
    /\ started' = started \ {flags} /\ taken' = [taken EXCEPT ![flags] = {}]
    /\ UNCHANGED <<libraries, objects, trophySet, cleaned, loans>>

----------------------------------------------------------------------------
\* Network, HTTP, web API

NetObjects ==
    \/ Root("net_pool") \/ Deleted("net_pool")
    \/ Root("net_epoll") \/ Deleted("net_epoll")

\* The pool a resolver belongs to is not looked at.
Resolvers ==
    \/ \E p \in Slot \cup {NoSlot} : MakesAs("resolver", p, Unset)
    \/ Deleted("resolver")

HttpObjects ==
    \/ Root("http_context") \/ Deleted("http_context")
    \/ Under("http_context", "http_template") \/ Deleted("http_template")
    \/ Under("http_template", "http_connection") \/ Deleted("http_connection")

\* shadps4_hle_http_create_request_values: first the handle, then the object;
\* a handle without an object is closed again, which may be refused.
Keeps(h) == lent' = lent \cup {h} /\ UNCHANGED abandoned
ClosesAgain(h) ==
    \E left \in SUBSET {h} :
      lent' = lent \cup left /\ abandoned' = abandoned \cup left

OpensRequest(parent) ==
    \E h \in AppHandle \ lent :
      /\ \/ /\ Keeps(h)
            /\ \E s \in FirstVacant :
                 /\ kinds' = [kinds EXCEPT ![s] = "http_request"]
                 /\ parents' = [parents EXCEPT ![s] = parent]
                 /\ hosts' = [hosts EXCEPT ![s] = h]
         \/ FirstVacant = {} /\ ClosesAgain(h) /\ UNCHANGED <<kinds, parents, hosts>>
      /\ UNCHANGED <<libraries, columns, switches, trophySet, cleaned>>

HttpRequests == \E p \in Living("http_connection") : OpensRequest(p)
Http2Requests == \E p \in Living("http_template") : OpensRequest(p)

\* Deletes a request unless the application refuses to close it.  After a
\* cleanup there is nothing to close, which the application refuses.
HttpDeleteRequest ==
    \E s \in Living("http_request") :
      /\ hosts[s] # NoLoan
      /\ DeletesBelow(Below({s}), {}) /\ UNCHANGED started

\* Which epoll a request reports to.
HttpEpolls ==
    \/ Under("http_context", "http_epoll") \/ Deleted("http_epoll")
    \/ \E s \in Living("http_request"), e \in Living("http_epoll") \cup {NoSlot} :
         Sets(s, [columns[s] EXCEPT !.refers = e])
\* Whether calls on an object wait; of any kind.
HttpSetNonblock ==
    \E s \in Slot \ Living(Vacant), on \in BOOLEAN :
      Sets(s, [columns[s] EXCEPT !.nonblock = on])

WebapiRequests == \E p \in Living("webapi_user") : OpensRequest(p)

WebapiObjects ==
    \/ Under("http_context", "webapi_context") \/ Deleted("webapi_context")
    \/ Under("webapi_context", "webapi_user") \/ Deleted("webapi_user")
    \/ Under("webapi_context", "webapi_handle") \/ Deleted("webapi_handle")
    \/ WebapiRequests

\* Callbacks belong to a user or a context, and may name a filter.
Registers(above, filter, state) ==
    \E p \in Living(above) :
      MakesAs("webapi_callback", p,
              LAMBDA row : [row EXCEPT !.refers = filter, !.state = state])

WebapiFilters ==
    \/ Under("webapi_context", "webapi_filter")
    \/ DeletedFrom("webapi_context", "webapi_filter")
WebapiCallbacks ==
    \/ \E above \in {"webapi_user", "webapi_context"},
          filter \in Living("webapi_filter") \cup {NoSlot} :
         Registers(above, filter, "active")
    \/ DeletedFrom("webapi_user", "webapi_callback")
    \* UNREGISTER_DIRECT: all callbacks of a user that have no filter
    \/ \E u \in Living("webapi_user") :
         /\ Deletes({s \in Living("webapi_callback") :
                       parents[s] = u /\ columns[s].refers = NoSlot})
         /\ UNCHANGED started

FiltersFor(h) ==
    MakesAs("webapi_filter", parents[h], LAMBDA row : [row EXCEPT !.refers = h])

WebapiPush ==
    \/ \E h \in Living("webapi_handle") : FiltersFor(h)
    \/ \E filter \in Living("webapi_filter") \cup {NoSlot}, state \in {"idle", "active"} :
         Registers("webapi_user", filter, state)
    \/ Deleted("webapi_filter") \/ Deleted("webapi_callback")
    \/ Under("webapi_user", "webapi_push") \/ DeletedFrom("webapi_user", "webapi_push")
    \/ Marks("webapi_push", "active")

----------------------------------------------------------------------------
\* Matching, scores, shared storage, signalling, accounts

NpMatching ==
    \/ Starts("np_matching") \/ Ends("np_matching", "matching_context")
    \/ "np_matching" \in started /\ Root("matching_context")
    \/ "np_matching" \in started /\ Deleted("matching_context")

NpScore ==
    \/ Root("score_title") \/ Deleted("score_title")
    \/ Under("score_title", "score_request") \/ Deleted("score_request")
    \/ Answers("score_request", "aborted") \/ Answers("score_request", "offline")

NpTus ==
    \/ Root("tus_title") \/ Deleted("tus_title")
    \/ Under("tus_title", "tus_request") \/ Deleted("tus_request")

NpSignaling ==
    \/ Starts("np_signaling") \/ Ends("np_signaling", "signaling_context")
    \/ "np_signaling" \in started /\ Root("signaling_context")
    \/ "np_signaling" \in started /\ Deleted("signaling_context")

\* Requests to the account manager: an abort replaces an answer.
NpManager ==
    \/ \E async \in BOOLEAN :
         MakesAs("np_request", NoSlot,
                 LAMBDA row : IF async THEN [row EXCEPT !.nonblock = TRUE] ELSE row)
    \/ Deleted("np_request")
    \/ Answers("np_request", "aborted") \/ Answers("np_request", "offline")
    \/ \E s \in Living("np_request") :    \* WAIT_ASYNC
         /\ columns[s].nonblock /\ columns[s].state = "idle"
         /\ Sets(s, [columns[s] EXCEPT !.state = "offline"])
    \/ Root("np_callback") \/ Deleted("np_callback")

\* Requests for tokens: what was answered stays, and so does an abort.
NpAuth ==
    \/ /\ Cardinality(Living("auth_request")) < MaxAuth
       /\ \E async \in BOOLEAN :
            MakesAs("auth_request", NoSlot,
                    LAMBDA row : [row EXCEPT !.nonblock = async, !.state = "new"])
    \/ Deleted("auth_request")
    \/ \E s \in Living("auth_request") :
         \/ /\ columns[s].state # "offline"
            /\ Sets(s, [columns[s] EXCEPT !.state = "aborted"])
         \/ /\ columns[s].state = "new"
            /\ Sets(s, [columns[s] EXCEPT !.state = "offline"])

----------------------------------------------------------------------------
\* Sound and pictures

Ajm ==
    \/ Root("ajm_context")
    \/ Deletes(Living("ajm_context")) /\ UNCHANGED started    \* AJM_FINALIZE
    \/ Marks("ajm_context", "codec")
    \/ \E c \in Living("ajm_context") :
         columns[c].state = "codec" /\ MakesAs("ajm_instance", c, Unset)
    \/ DeletedFrom("ajm_context", "ajm_instance")
    \/ Under("ajm_context", "ajm_batch") \/ DeletedFrom("ajm_context", "ajm_batch")

\* A rack may belong to no system; what a report belongs to is not looked at.
Ngs2 ==
    \/ Root("ngs2_system") \/ Deleted("ngs2_system")
    \/ \E p \in Living("ngs2_system") \cup {NoSlot} : MakesAs("ngs2_rack", p, Unset)
    \/ Deleted("ngs2_rack")
    \/ \E kind \in {"ngs2_system", "ngs2_rack"}, s \in Slot :
         /\ kinds[s] = kind
         /\ Sets(s, [columns[s] EXCEPT !.state = IF @ = "locked" THEN "idle" ELSE "locked"])
Ngs2Reports ==
    \/ \E p \in Slot \cup {NoSlot} : MakesAs("ngs2_report", p, Unset)
    \/ Deleted("ngs2_report")

\* shadps4_hle_avplayer_open: the new source is opened before the old is closed.
PlayerOpens(s) ==
    LET held == {hosts[s]} \ {NoLoan}
    IN \E h \in AppHandle \ lent, refused \in SUBSET held :
      /\ hosts' = [hosts EXCEPT ![s] = h]
      /\ columns' = [columns EXCEPT ![s].state = IF @ = "idle" THEN "sourced" ELSE @]
      /\ lent' = (lent \cup {h}) \ (held \ refused)
      /\ abandoned' = abandoned \cup refused
      /\ UNCHANGED <<libraries, kinds, parents, switches, trophySet, cleaned>>

AvPlayer ==
    \/ Root("avplayer") \/ Deleted("avplayer")
    \/ \E s \in Living("avplayer") :
         \/ PlayerOpens(s)
         \/ /\ hosts[s] # NoLoan
            /\ \E state \in {"sourced", "playing"} :
                 Sets(s, [columns[s] EXCEPT !.state = state])
         \/ \E looping \in BOOLEAN : Sets(s, [columns[s] EXCEPT !.nonblock = looping])

Audio3d ==
    \/ Starts("audio3d") \/ EndsAlone("audio3d")
    \/ "audio3d" \in started /\ Root("audio3d_port")
    \/ Deleted("audio3d_port")
    \/ \E s \in Living("audio3d_port") :
         \/ columns[s].level < Depth /\ Sets(s, [columns[s] EXCEPT !.level = @ + 1])
         \/ columns[s].level > 0 /\ Sets(s, [columns[s] EXCEPT !.level = @ - 1])
         \/ Sets(s, [columns[s] EXCEPT !.level = 0])
    \/ Under("audio3d_port", "audio3d_object")
    \/ DeletedFrom("audio3d_port", "audio3d_object")

PngEncoders == Root("png_encoder") \/ Deleted("png_encoder")
PngDecoders == Root("png_decoder") \/ Deleted("png_decoder")
VideoDecoders == Root("video_decoder") \/ Deleted("video_decoder")
VideoDecoders2 == Root("video_decoder2") \/ Deleted("video_decoder2")

\* A font belongs to a library or to the font it is an instance of; it goes with it.
Fonts ==
    \/ Root("font_library") \/ Deleted("font_library")
    \/ Root("font_renderer") \/ Deleted("font_renderer")
    \/ Under("font_library", "font") \/ Under("font", "font")
FontRenderers ==
    \E s \in Living("font"), r \in Living("font_renderer") \cup {NoSlot} :
      Sets(s, [columns[s] EXCEPT !.refers = r])

----------------------------------------------------------------------------
\* Devices and the rest

Move ==
    \/ Starts("move") \/ Ends("move", "move_handle")
    \/ "move" \in started /\ Root("move_handle")
    \/ "move" \in started /\ Deleted("move_handle")

\* A request is unpacked at once, waited for later, and kept until the end.
Zlib ==
    \/ Starts("zlib") \/ Ends("zlib", "zlib_request")
    \/ /\ "zlib" \in started
       /\ MakesAs("zlib_request", NoSlot, LAMBDA row : [row EXCEPT !.state = "active"])
    \/ /\ "zlib" \in started
       /\ \E s \in Living("zlib_request") :
            /\ columns[s].state = "active"
            /\ \A u \in Living("zlib_request") : columns[u].state = "active" => s <= u
            /\ Sets(s, [columns[s] EXCEPT !.state = "idle"])

\* A transfer's device, which the guest names itself, is kept as its parent.
Usbd ==
    \/ Starts("usbd") \/ Root("usb_transfer") \/ Deleted("usb_transfer")
    \/ started' = started \ {"usbd"} /\ Deletes(Living("usb_transfer"))
    \/ \E s \in Living("usb_transfer"), device \in Slot \cup {NoSlot} :
         /\ parents' = [parents EXCEPT ![s] = device]
         /\ UNCHANGED <<libraries, kinds, hosts, columns, switches, trophySet, cleaned, loans>>

Camera == Root("camera") \/ Deleted("camera")

\* The display is opened once; the library may end while it is open.
Hmd ==
    \/ Starts("hmd") \/ EndsAlone("hmd")
    \/ "hmd" \in started /\ Living("hmd_handle") = {} /\ Root("hmd_handle")
    \/ "hmd" \in started /\ Deleted("hmd_handle")

\* One session of the input method and one keyboard; both name a user, not an
\* object, as their parent.
Ime == \E kind \in {"ime_session", "ime_keyboard"} :
          (Living(kind) = {} /\ Root(kind)) \/ Deleted(kind)

PlayGo ==
    \/ Starts("playgo")
    \/ "playgo" \in started /\ Starts("playgo open")
    \/ "playgo" \in started /\ EndsAlone("playgo open")
    \/ /\ "playgo" \in started /\ started' = started \ {"playgo", "playgo open"}
       /\ UNCHANGED <<libraries, objects, taken, trophySet, cleaned, loans>>

\* The flags of a slot outlive its context; the next one clears them.
TrophyContext ==
    /\ \E s \in FirstVacant :
         /\ Fills(s, "trophy_context", NoSlot)
         /\ trophies' = [trophies EXCEPT ![s] = {}]
         /\ earned' = [earned EXCEPT ![s] = {}]
    /\ UNCHANGED <<libraries, columns, switches, cleaned, loans>>
TrophyUnlock(s, t) ==
    /\ columns[s].state = "registered" /\ Living("trophy_handle") # {}
    /\ t \notin trophies[s]
    /\ trophies' = [trophies EXCEPT ![s] = @ \cup {t}]
    /\ earned' = [earned EXCEPT ![s] = @ \cup {t}]
    /\ UNCHANGED <<libraries, objects, switches, cleaned, loans>>
Trophies ==
    \/ TrophyContext \/ Deleted("trophy_context")
    \/ Root("trophy_handle") \/ Deleted("trophy_handle")
    \/ Living("trophy_handle") # {} /\ Marks("trophy_context", "registered")
    \/ \E s \in Living("trophy_context"), t \in Trophy : TrophyUnlock(s, t)

VrTracker ==
    \/ Starts("vr") \/ EndsPlaces("vr")
    \/ "vr" \in started /\ Frees("vr")
    \/ "vr" \in started /\ \E p \in Place : Takes("vr", p)

Pads ==
    \/ Starts("pad") \/ Frees("pad")
    \/ "pad" \in started /\ \E p \in Place : Takes("pad", p)

NetCtl == Starts("netctl") \/ EndsPlaces("netctl")
NetCtlCallbacks ==
    \/ Frees("netctl")
    \/ /\ "netctl" \in started
       /\ \E p \in Place \ taken["netctl"] :
            /\ \A q \in Place \ taken["netctl"] : p <= q
            /\ Takes("netctl", p)

\* A wait for an event flag does not wait: it fails until the flag is set.
EventFlags ==
    \/ Root("event_flag") \/ Deleted("event_flag")
    \/ Marks("event_flag", "set") \/ Marks("event_flag", "idle")

\* A lock that is taken is refused at once, to readers and writers.
RwLocks ==
    \/ Root("rwlock_attr") \/ Deleted("rwlock_attr")
    \/ Root("rwlock") \/ Deleted("rwlock")
    \/ \E s \in Living("rwlock") :
         \/ /\ columns[s].state # "written" /\ columns[s].level < Depth
            /\ Sets(s, [columns[s] EXCEPT !.level = @ + 1])
         \/ /\ columns[s].state # "written" /\ columns[s].level = 0
            /\ Sets(s, [columns[s] EXCEPT !.state = "written"])
         \/ columns[s].state = "written" /\ Sets(s, [columns[s] EXCEPT !.state = "idle"])
         \/ /\ columns[s].state # "written" /\ columns[s].level > 0
            /\ Sets(s, [columns[s] EXCEPT !.level = @ - 1])

----------------------------------------------------------------------------
\* The end

HostsNamed == {hosts[s] : s \in Slot} \ {NoLoan}

\* shadps4_hle_cleanup closes the handles and keeps the objects; a second does nothing.
LibraryExit ==
    /\ ~cleaned /\ cleaned' = TRUE
    /\ \E refused \in SUBSET HostsNamed : Closes(HostsNamed, refused)
    /\ hosts' = [s \in Slot |-> NoLoan]
    /\ UNCHANGED <<libraries, kinds, parents, columns, switches, trophySet>>

\* shadps4_hle_reset: cleanup, and everything as at the start.  What was opened
\* after a cleanup is forgotten.
LibraryReset ==
    /\ IF cleaned THEN UNCHANGED lent /\ abandoned' = abandoned \cup HostsNamed
       ELSE \E refused \in SUBSET HostsNamed : Closes(HostsNamed, refused)
    /\ kinds' = [s \in Slot |-> Vacant] /\ parents' = [s \in Slot |-> NoSlot]
    /\ hosts' = [s \in Slot |-> NoLoan] /\ columns' = [s \in Slot |-> Blank]
    /\ started' = {} /\ taken' = [f \in FlagSets |-> {}]
    /\ trophies' = [s \in Slot |-> {}] /\ earned' = [s \in Slot |-> {}]
    /\ cleaned' = FALSE /\ UNCHANGED libraries

Uses(library) == library \in libraries

LibraryNext ==
    \/ Uses("net") /\ (NetObjects \/ Resolvers)
    \/ Uses("netctl") /\ (NetCtl \/ NetCtlCallbacks)
    \/ Uses("http") /\ (HttpObjects \/ HttpDeleteRequest)
    \/ Uses("http1") /\ (HttpRequests \/ HttpEpolls \/ HttpSetNonblock)
    \/ Uses("http2") /\ Http2Requests
    \/ Uses("webapi") /\ WebapiObjects
    \/ Uses("callbacks") /\ (WebapiFilters \/ WebapiCallbacks)
    \/ Uses("push") /\ WebapiPush
    \/ Uses("matching") /\ (NpMatching \/ NpSignaling)
    \/ Uses("scores") /\ (NpScore \/ NpTus)
    \/ Uses("accounts") /\ (NpManager \/ NpAuth)
    \/ Uses("ajm") /\ Ajm
    \/ Uses("ngs2") /\ (Ngs2 \/ Ngs2Reports)
    \/ Uses("audio3d") /\ Audio3d
    \/ Uses("players") /\ AvPlayer
    \/ Uses("codecs") /\ (PngEncoders \/ PngDecoders \/ VideoDecoders \/ VideoDecoders2)
    \/ Uses("fonts") /\ (Fonts \/ FontRenderers)
    \/ Uses("devices") /\ (Move \/ Camera \/ Hmd \/ Ime)
    \/ Uses("usbd") /\ Usbd
    \/ Uses("zlib") /\ Zlib
    \/ Uses("playgo") /\ PlayGo
    \/ Uses("places") /\ (VrTracker \/ Pads)
    \/ Uses("trophies") /\ Trophies
    \/ Uses("locks") /\ (EventFlags \/ RwLocks)
    \/ LibraryExit \/ LibraryReset

LibrarySpec == LibraryInit /\ [][LibraryNext]_libraryVars

----------------------------------------------------------------------------
\* Properties

\* What the code takes the owner of an object for when it uses one of the kind.
Owners ==
    [http_template |-> {"http_context"}, http_connection |-> {"http_template"},
     http_request |-> {"http_connection", "http_template", "webapi_user"},
     http_epoll |-> {"http_context"},
     webapi_context |-> {"http_context"}, webapi_user |-> {"webapi_context"},
     webapi_handle |-> {"webapi_context"}, webapi_filter |-> {"webapi_context"},
     webapi_callback |-> {"webapi_user", "webapi_context"},
     webapi_push |-> {"webapi_user"},
     score_request |-> {"score_title"}, tus_request |-> {"tus_title"},
     ajm_instance |-> {"ajm_context"}, ajm_batch |-> {"ajm_context"},
     audio3d_object |-> {"audio3d_port"}, font |-> {"font_library", "font"},
     ngs2_rack |-> {"ngs2_system", "nothing"}]

KindOf(s) == IF s \in Slot THEN kinds[s] ELSE "nothing"

OwnersLive ==
    \A s \in Slot : kinds[s] \in DOMAIN Owners => KindOf(parents[s]) \in Owners[kinds[s]]

NothingInherited ==
    \A s \in Slot :
        /\ kinds[s] = Vacant =>
             parents[s] = NoSlot /\ hosts[s] = NoLoan /\ columns[s] = Blank
        /\ kinds[s] = "trophy_context" => trophies[s] = earned[s]

NothingAfterEnd ==
    /\ "move" \notin started => Living("move_handle") = {}
    /\ "zlib" \notin started => Living("zlib_request") = {}
    /\ "np_matching" \notin started => Living("matching_context") = {}
    /\ "np_signaling" \notin started => Living("signaling_context") = {}
    /\ "playgo" \notin started => "playgo open" \notin started
    /\ \A f \in FlagSets \ started : taken[f] = {}

\* A lock that is written has no readers.
WritersAlone ==
    \A s \in Living("rwlock") : columns[s].state = "written" => columns[s].level = 0

\* The table of objects through every order of creations, deletions, ends of
\* libraries and reuse of slots: an object goes with what it belongs to, so that
\* nothing ever belongs to the next object of a slot; a slot passes nothing of
\* an object on to the next, nor an ended library anything to the next start.
ObjectsWhole == OwnersLive /\ NothingInherited /\ NothingAfterEnd /\ WritersAlone

\* Every handle of the application that requests and players hold is open and
\* held once, and none is lost: one that no object names is one whose close the
\* application refused, or that was opened after the exit and left by a reset.
LoansNamed ==
    /\ lent \ abandoned \subseteq HostsNamed /\ HostsNamed \subseteq lent
    /\ \A s, u \in Slot : hosts[s] # NoLoan /\ s # u => hosts[u] # hosts[s]
=============================================================================
