------------------------------- MODULE Secure -------------------------------
(***************************************************************************)
(* Secure mode and authentication (secure.c, the secure-mode gate and the  *)
(* lock and revert timers of input.c, switcher_lock and                    *)
(* switcher_auth_force of switch.c).                                       *)
(*                                                                         *)
(* While secure mode is on and the UIVM has the screen, input_secure_mode  *)
(* swallows keys into a four-field line editor; Enter submits the fields   *)
(* to auth_end, which runs local authentication or hands a remote login to *)
(* a backend daemon that answers later with auth_remote_status.  An        *)
(* auth_status that hides the window ends secure mode.                     *)
(*                                                                         *)
(* The code runs on one libevent thread, so every handler is one atomic    *)
(* step.  Handlers are sequential C code calling one another; the model    *)
(* writes each callee as an operator from a state record to a state record *)
(* (or to the set of records its external scripts can lead to), and an    *)
(* action commits the record its handler ends in.  Field contents are      *)
(* abstracted to "" and a few words; the results of the credential         *)
(* scripts, of file writes and of the backend are nondeterministic.        *)
(***************************************************************************)
EXTENDS Integers, Sequences, FiniteSets

CONSTANTS
    NoCtx,            \* auth_get_context() = NULL
    Words,            \* the nonempty contents a field may hold
    ContextChoices,   \* the contexts auth_set_context(_flags) may be given
    LockTimeout,      \* platform_lock_timeout, in seconds
    GuestHasTools,    \* revert_to_auth may switch away from the guest
    MaxPending        \* bound on remote logins the backend has not answered

ASSUME LockTimeout > 0

\* the context flags of secure.h the code tests
Flags == {"LOCK", "CONFIRM_PW", "SET_LOCAL_PW", "REMOTE_USER",
          "CANNOT_CANCEL", "SET_ROOT_PW", "CHANGE_LOCAL_PW"}

\* input_dev.auth's four fields
Fields == {"USERNAME", "PASSWORD", "CONFIRM", "PREVIOUS"}

Contexts == [user : {""} \cup Words, flags : SUBSET Flags]

\* the values of /local/domain/<uivm>/login/state
WindowStates == {"absent", "1", "0", "3"}

VARIABLES
    secure,     \* input_dev.secure_mode
    ctx,        \* g_auth_context, or NoCtx when g_auth_context_present = 0
    window,     \* the login/state node the UIVM's auth window follows
    focus,      \* "uivm" or "guest": the domain switcher_get_focus() names
    revert,     \* revert_to_auth_event is pending
    timeout,    \* the static timeout of input_lock_timer, in seconds
    dbUser,     \* /platform/username is set
    dbFlags,    \* /platform/flags
    rootPw,     \* dom0's root password is set
    pending,    \* remote logins (and recoveries) the backend has not answered
    localHash,  \* /mnt/secure/local-hash-<user> exists
    remoteHash, \* /mnt/secure/remote-hash-<user> exists
    collect,    \* input_dev.collect_password
    field,      \* input_dev.auth.current_field
    text        \* the contents of the four fields ("" for NULL too)

vars == <<secure, ctx, window, focus, revert, timeout, dbUser,
          dbFlags, rootPw, pending, localHash, remoteHash, collect, field,
          text>>

\* the state as a record, and the step that makes a record the next state
S == [secure |-> secure, ctx |-> ctx, window |-> window,
      focus |-> focus, revert |-> revert, timeout |-> timeout,
      dbUser |-> dbUser, dbFlags |-> dbFlags, rootPw |-> rootPw,
      pending |-> pending, localHash |-> localHash,
      remoteHash |-> remoteHash, collect |-> collect, field |-> field,
      text |-> text]

Commit(r) ==
    /\ secure' = r.secure /\ ctx' = r.ctx /\ window' = r.window
    /\ focus' = r.focus /\ revert' = r.revert
    /\ timeout' = r.timeout /\ dbUser' = r.dbUser /\ dbFlags' = r.dbFlags
    /\ rootPw' = r.rootPw /\ pending' = r.pending
    /\ localHash' = r.localHash /\ remoteHash' = r.remoteHash
    /\ collect' = r.collect /\ field' = r.field /\ text' = r.text

\* g_auth_status and g_auth_flags are only read back by the D-Bus method
\* auth_get_status: the model keeps no status, and the status strings of
\* auth_status calls below name the branch they come from.

TypeOK ==
    /\ secure \in BOOLEAN /\ ctx \in Contexts \cup {NoCtx}
    /\ window \in WindowStates
    /\ focus \in {"uivm", "guest"} /\ revert \in BOOLEAN
    /\ timeout \in 0..(LockTimeout + 4) /\ dbUser \in BOOLEAN
    /\ dbFlags \in SUBSET Flags /\ rootPw \in BOOLEAN
    /\ pending \in 0..MaxPending
    /\ localHash \in BOOLEAN /\ remoteHash \in BOOLEAN
    /\ collect \in BOOLEAN /\ field \in Fields
    /\ text \in [Fields -> {""} \cup Words]

HasFlag(s, f) == s.ctx # NoCtx /\ f \in s.ctx.flags

-----------------------------------------------------------------------------
(* The line editor of the secure-mode gate (input.c)                       *)

\* auth_current_tab_order: the fields Tab cycles through
TabOrder(c) ==
    IF "CHANGE_LOCAL_PW" \in c.flags THEN <<"PREVIOUS", "PASSWORD", "CONFIRM">>
    ELSE IF "CONFIRM_PW" \in c.flags THEN <<"PASSWORD", "CONFIRM">>
    ELSE IF "REMOTE_USER" \in c.flags THEN <<"PASSWORD", "USERNAME">>
    ELSE <<"PASSWORD">>

\* auth_figure_initial_focus
InitialFocus(c) ==
    IF "CHANGE_LOCAL_PW" \in c.flags THEN "PREVIOUS"
    ELSE IF ({"SET_LOCAL_PW", "CONFIRM_PW", "SET_ROOT_PW"} \cap c.flags) # {}
    THEN "PASSWORD"
    ELSE IF c.user = "" THEN "USERNAME"
    ELSE "PASSWORD"

\* auth_tab: the field's index in the order (0 when it is not there),
\* moved by dir and wrapped by auth_wrap_tabindex
Tab(s, dir) ==
    LET o == TabOrder(s.ctx)
        at == {i \in 1..Len(o) : o[i] = s.field}
        idx == IF at = {} THEN 0 ELSE (CHOOSE i \in at : TRUE) - 1
    IN [s EXCEPT !.field = o[((idx + dir) % Len(o)) + 1]]

\* auth_collect_key: a character lands in the field only once the UI
\* asked for collection
CollectKey(s) ==
    IF s.collect THEN {[s EXCEPT !.text[s.field] = w] : w \in Words}
    ELSE {s}

\* auth_backspace: the field loses its last byte
Backspace(s) ==
    IF s.text[s.field] = "" THEN {s}
    ELSE {[s EXCEPT !.text[s.field] = v] : v \in {""} \cup Words}

\* input_clear_passwd: the fields freed; with a context they are
\* re-created empty, the username from the context, and a field focused
ClearPasswd(s) ==
    LET empty == [f \in Fields |-> ""]
    IN IF s.ctx = NoCtx THEN [s EXCEPT !.text = empty]
       ELSE [s EXCEPT !.text = [empty EXCEPT !["USERNAME"] = s.ctx.user],
                      !.field = InitialFocus(s.ctx)]

-----------------------------------------------------------------------------
(* Entering and leaving secure mode                                        *)

\* auth_window_shown: the node exists and is not "3"
Shown(s) == s.window \in {"0", "1"}

\* input_secure(on), with auth_begin when secure mode is entered.  The
\* UIVM is present.  A context with LOCK arms the revert timer.
InputSecure(s, on) ==
    IF on = s.secure THEN s
    ELSE LET s1 == ClearPasswd([s EXCEPT !.secure = on])
             s2 == [s1 EXCEPT !.collect = FALSE]
         IN IF ~on THEN s1
            ELSE IF s2.ctx = NoCtx \/ Shown(s2) THEN s2
            ELSE [s2 EXCEPT !.window = "1",
                            !.revert = s2.revert \/ "LOCK" \in s2.ctx.flags]

\* auth_status hiding the window without leaving secure mode
AuthStatusKeepSecure(s, st, hide) ==
    IF hide THEN [s EXCEPT !.ctx = NoCtx, !.window = "0"] ELSE s

\* auth_status(st, is_error, hide_window, flags): a status that hides the
\* window clears the context, sets the node to "0" and leaves secure mode,
\* in that order; the status itself is only emitted
AuthStatus(s, st, hide) ==
    LET s1 == IF hide
              THEN InputSecure([s EXCEPT !.ctx = NoCtx, !.window = "0"], FALSE)
              ELSE s
    IN s1

Ok(s) == AuthStatus(s, "ok", TRUE)
Fail(s, st) == AuthStatus(s, st, FALSE)

\* auth_set_context
SetCtx(s, c) == [s EXCEPT !.ctx = c]

\* switcher_lock(can_switch_out): a context made from /platform/username
\* and /platform/flags, then input_secure(1)
SwitcherLock(s, canSwitchOut) ==
    IF ~s.dbUser THEN s
    ELSE LET fl == s.dbFlags \cup {"CANNOT_CANCEL"}
                   \cup (IF canSwitchOut THEN {} ELSE {"LOCK"})
         IN InputSecure(SetCtx(s, [user |-> CHOOSE w \in Words : TRUE,
                                   flags |-> fl]), TRUE)

\* switcher_auth_force: without a context, one from the database with
\* LOCK removed
SwitcherAuthForce(s) ==
    IF s.ctx # NoCtx THEN InputSecure(s, TRUE)
    ELSE IF ~s.dbUser THEN s
    ELSE InputSecure(SetCtx(s, [user |-> CHOOSE w \in Words : TRUE,
                                flags |-> (s.dbFlags \ {"LOCK"})
                                          \cup {"CANNOT_CANCEL"}]), TRUE)

\* switcher_auth_or_lock_wrapper, the Ctrl+Alt+Backspace binding
AuthOrLock(s) ==
    IF s.ctx # NoCtx THEN SwitcherAuthForce(s) ELSE SwitcherLock(s, FALSE)

-----------------------------------------------------------------------------
(* Authentication (secure.c)                                               *)

\* auth_update_cache: the platform user and flags; a remote user's flags
\* are reduced to REMOTE_USER
UpdateCache(s, fl) ==
    [s EXCEPT !.dbUser = TRUE,
              !.dbFlags = IF "REMOTE_USER" \in fl THEN {"REMOTE_USER"} ELSE fl]

\* local_auth(remote_ok, ...), never auto-started, for a non-empty id:
\* the results its scripts (sec_check_user, user_create,
\* sec_check_pass_and_mount, sec_change_pass) can lead to, each with
\* whether recovery was started.  Without recovery the local hash file is
\* removed (cleanup_userpass).
LocalAuth(s, remoteOk, ctxFlags, hasRecovery) ==
    LET s0 == Fail(s, "in_progress")
        Done(r) == [st |-> [r EXCEPT !.localHash = FALSE], rec |-> FALSE]
        Recovery == [st |-> s0, rec |-> TRUE]
        Success == Done(Ok(UpdateCache(s0, ctxFlags)))
        Error == Done(Fail(s0, "internal_error"))
    IN IF ~s.localHash THEN {Done(Fail(s0, "need_credentials"))}
       ELSE {Error, Success}
            \cup (IF ~hasRecovery /\ remoteOk THEN {Recovery} ELSE {})
            \cup (IF "REMOTE_USER" \in ctxFlags /\ ~hasRecovery /\ ~remoteOk
                  THEN {Done(Fail(s0, "not_exist"))} ELSE {})
            \cup (IF ~hasRecovery /\ ~remoteOk
                  THEN {Done(Fail(s0, "need_credentials"))} ELSE {})
            \cup (IF hasRecovery
                  THEN {Done(Fail(s0, "recovery_key_invalid"))} ELSE {})

\* change_root_password(passwd, NULL): refused when a root password is
\* set; otherwise sec-change-root-credentials may fail or succeed
ChangeRootPassword(s) ==
    LET s0 == Fail(s, "in_progress")
    IN {[ok |-> FALSE, st |-> s0]}
       \cup (IF s.rootPw THEN {}
             ELSE {[ok |-> TRUE, st |-> [s0 EXCEPT !.rootPw = TRUE]]})

\* change_or_create_local_password: writes the hash of the new (and old)
\* password to the local hash file of the user, creates the user or
\* changes its password and recovery key, mounts, and removes the files
ChangeOrCreateLocal(s) ==
    LET s0 == Fail(s, "in_progress")
        Clean(r) == [r EXCEPT !.localHash = FALSE]
    IN {Clean(Fail(s0, "internal_error")),
        Clean(Fail(s0, "recovery_key_invalid")),
        Clean(Ok(UpdateCache(s0, {})))}

\* auth_end(username, password, confirm, previous), from the Enter key.
\* A remote user's login is handed to the backend (a pending answer).
AuthEnd(s) ==
    LET fl == s.ctx.flags
        u == s.text["USERNAME"]
        p == s.text["PASSWORD"]
        Err(r) == Fail(r, "internal_error")
        s1 == [s EXCEPT !.localHash = TRUE]
    IN IF ~Shown(s) \/ s.ctx = NoCtx THEN {Err(s)}
       ELSE IF "CONFIRM_PW" \in fl /\ p # s.text["CONFIRM"]
       THEN {Fail(s, "confirm_failed")}
       ELSE IF "SET_ROOT_PW" \in fl
       THEN IF p = "" THEN {Fail(s, "need_password")}
            ELSE {IF x.ok THEN Ok(x.st) ELSE Err(x.st) : x \in ChangeRootPassword(s)}
       ELSE IF u = "" THEN {Fail(s, "need_credentials")}
       ELSE IF ({"SET_LOCAL_PW", "CHANGE_LOCAL_PW"} \cap fl) # {}
       THEN ChangeOrCreateLocal(s)
       ELSE IF "REMOTE_USER" \notin fl
       THEN {Err(s)} \cup {x.st : x \in LocalAuth(s1, FALSE, fl, FALSE)}
       ELSE {Err(s), Err(s1),
             Fail([s1 EXCEPT !.remoteHash = TRUE, !.pending = @ + 1],
                  "in_progress")}

\* auth_remote_login(user, password), from the D-Bus method
RemoteLogin(s) ==
    LET s1 == [s EXCEPT !.localHash = TRUE]
    IN IF ~HasFlag(s, "REMOTE_USER") THEN {Fail(s, "internal_error")}
       ELSE {Fail(s, "internal_error"), Fail(s1, "internal_error"),
             Fail([s1 EXCEPT !.remoteHash = TRUE, !.pending = @ + 1],
                  "in_progress")}

\* the backend's answers, one of each branch of auth_remote_status
RemoteCodes == {"OK", "OFFLINE", "USERID_MISMATCH", "NOT_DEVICE_OWNER",
                "IN_PROGRESS", "BAD_USER_OR_PASSWORD", "NO_RECOVERY_KEY",
                "INVALID"}

\* auth_remote_status(FALSE, code, id, username, recovery_key_file,
\* ctx_flags) answering a login of a remote user: the remote hash file is
\* removed, the local one too unless recovery started; a recovery started
\* stays pending for its own answer
RemoteStatus(s, code, hasRecovery) ==
    LET s0 == [s EXCEPT !.remoteHash = FALSE]
        Direct(st) == {[st |-> Fail(s0, st), rec |-> FALSE]}
        r == CASE code = "OK" -> LocalAuth(s0, TRUE, {"REMOTE_USER"}, hasRecovery)
               [] code = "OFFLINE" -> LocalAuth(s0, FALSE, {"REMOTE_USER"}, hasRecovery)
               [] code = "USERID_MISMATCH" -> Direct("internal_error")
               [] code = "NOT_DEVICE_OWNER" -> Direct("not_device_owner")
               [] code = "IN_PROGRESS" -> Direct("in_progress")
               [] code = "BAD_USER_OR_PASSWORD" -> Direct("need_credentials")
               [] code = "NO_RECOVERY_KEY" -> Direct("no_recovery_key")
               [] code = "INVALID" -> {[st |-> s0, rec |-> FALSE]}
    IN {IF x.rec THEN x.st
        ELSE [x.st EXCEPT !.localHash = FALSE, !.pending = @ - 1] : x \in r}

-----------------------------------------------------------------------------
(* The secure-mode gate (input.c)                                          *)

\* input_check_secure_mode: keys are taken only while the UIVM is on screen
GateActive(s) == s.secure /\ s.focus = "uivm"

\* the keys the user may press: the editing keys, a character, and the
\* last keys of two chords: Ctrl+1 (go_to_slot) and Ctrl+Alt+Backspace
\* (switcher_auth_or_lock_wrapper)
KeyInputs == {"ESC", "TAB", "SHIFT_TAB", "BACKSPACE", "ENTER", "CHAR",
              "SWITCH_CHORD", "LOCK_CHORD"}

\* input_exec_bindings for the two chords
Binding(s, k) ==
    IF k = "SWITCH_CHORD" THEN [s EXCEPT !.focus = "guest"]
    ELSE AuthOrLock(s)

\* input_secure_mode for a key down while the gate is active: Escape
\* cancels, Tab moves, Backspace trims, Enter submits then clears, a
\* character is collected.  A chord reaches here only when locked, as its
\* last key: '1' or Backspace.
GateKey(s, k) ==
    LET key == CASE k = "SWITCH_CHORD" -> "CHAR"
                 [] k = "LOCK_CHORD" -> "BACKSPACE"
                 [] OTHER -> k
    IN CASE key = "ESC" ->
              {ClearPasswd(IF HasFlag(s, "CANNOT_CANCEL")
                           THEN Fail(s, "user_cancel")
                           ELSE AuthStatus(s, "user_cancel", TRUE))}
         [] key = "TAB" -> {Tab(s, 1)}
         [] key = "SHIFT_TAB" -> {Tab(s, -1)}
         [] key = "BACKSPACE" -> Backspace(s)
         [] key = "ENTER" -> {ClearPasswd(r) : r \in AuthEnd(s)}
         [] key = "CHAR" -> CollectKey(s)

\* input_read for one key: input_lock_timer(0) restarts the idle count,
\* then input_secure_mode, and bindings for a key it lets through
KeyResults(s, k) ==
    LET s0 == [s EXCEPT !.timeout = 0]
        locked == HasFlag(s0, "LOCK")
    IN IF GateActive(s0) /\ (locked \/ k \notin {"SWITCH_CHORD", "LOCK_CHORD"})
       THEN GateKey(s0, k)
       ELSE IF k \in {"SWITCH_CHORD", "LOCK_CHORD"} THEN {Binding(s0, k)}
       ELSE {s0}

-----------------------------------------------------------------------------

Init ==
    /\ secure = FALSE /\ ctx = NoCtx /\ window = "absent"
    /\ focus = "guest" /\ revert = FALSE /\ timeout = 0
    /\ dbUser = FALSE /\ dbFlags = {} /\ rootPw = FALSE
    /\ pending = 0 /\ localHash = FALSE /\ remoteHash = FALSE
    /\ collect = FALSE /\ field = "USERNAME"
    /\ text = [f \in Fields |-> ""]

\* a key from a keyboard; Enter of a remote user's login is bounded by
\* MaxPending
Key(k) ==
    /\ k = "ENTER" => pending < MaxPending
    /\ \E r \in KeyResults(S, k) : Commit(r)

\* D-Bus auth_set_context / auth_set_context_flags
SetContext(c) == Commit(SetCtx(S, c))

\* D-Bus auth_begin
AuthBegin == Commit(SwitcherAuthForce(S))

\* D-Bus lock(can_switch_out)
Lock(canSwitchOut) == Commit(SwitcherLock(S, canSwitchOut))

\* D-Bus auth_collect_password (input_collect_password)
CollectPassword ==
    /\ collect' = (collect \/ secure)
    /\ UNCHANGED <<secure, ctx, window, focus, revert, timeout,
                   dbUser, dbFlags, rootPw, pending, localHash, remoteHash,
                   field, text>>

\* D-Bus auth_remote_login
AuthRemoteLogin ==
    /\ pending < MaxPending
    /\ \E r \in RemoteLogin(S) : Commit(r)

\* D-Bus auth_remote_status from the backend, answering a pending login
AuthRemoteStatus(code, hasRecovery) ==
    /\ pending > 0
    /\ \E r \in RemoteStatus(S, code, hasRecovery) : Commit(r)

\* input_lock_timer(1) testing timeout > platform_lock_timeout
LockTickLate ==
    LET s0 == IF timeout > LockTimeout
              THEN SwitcherLock([S EXCEPT !.timeout = 0], FALSE)
              ELSE S
    IN Commit([s0 EXCEPT !.timeout = @ + 5])

\* the lock timer firing every 5 s: input_lock_timer(1).  The check comes
\* before the count is raised.
LockTick ==
    LET s0 == IF timeout >= LockTimeout
              THEN SwitcherLock([S EXCEPT !.timeout = 0], FALSE)
              ELSE S
    IN Commit([s0 EXCEPT !.timeout = @ + 5])

\* revert_to_auth firing: back to the UIVM unless the guest is a PV
\* domain without tools, re-armed while secure mode is on
RevertToAuth ==
    /\ revert
    /\ focus' = IF focus # "uivm" /\ GuestHasTools THEN "uivm" ELSE focus
    /\ revert' = secure
    /\ UNCHANGED <<secure, ctx, window, timeout, dbUser, dbFlags,
                   rootPw, pending, localHash, remoteHash, collect, field,
                   text>>

\* (mutant) a failed switch that does not re-arm the timer
RevertToAuthFailNoRearm ==
    /\ revert /\ focus # "uivm" /\ GuestHasTools
    /\ revert' = FALSE
    /\ UNCHANGED <<secure, ctx, window, focus, timeout, dbUser, dbFlags,
                   rootPw, pending, localHash, remoteHash, collect, field,
                   text>>

\* revert_to_auth firing while the guest has the focus, and switcher_switch
\* returning -1: a switch already in progress (a timer dispatched during
\* the blocking surfman call) or surfman not showing the UIVM.  The focus
\* stays; the timer is re-armed while secure mode is on.
RevertToAuthFail ==
    /\ revert /\ focus # "uivm" /\ GuestHasTools
    /\ revert' = secure
    /\ UNCHANGED <<secure, ctx, window, focus, timeout, dbUser, dbFlags,
                   rootPw, pending, localHash, remoteHash, collect, field,
                   text>>

\* a switch the daemon does not decide: xenmgr, a mouse switch
Switch(d) ==
    /\ focus' = d
    /\ UNCHANGED <<secure, ctx, window, revert, timeout, dbUser,
                   dbFlags, rootPw, pending, localHash, remoteHash, collect,
                   field, text>>

\* the UIVM closing the window it was told to hide
WindowClosed ==
    /\ window = "0"
    /\ window' = "3"
    /\ UNCHANGED <<secure, ctx, focus, revert, timeout, dbUser,
                   dbFlags, rootPw, pending, localHash, remoteHash, collect,
                   field, text>>

Next ==
    \/ \E k \in KeyInputs : Key(k)
    \/ \E c \in ContextChoices : SetContext(c)
    \/ AuthBegin
    \/ \E b \in BOOLEAN : Lock(b)
    \/ CollectPassword
    \/ AuthRemoteLogin
    \/ \E code \in RemoteCodes, rec \in BOOLEAN : AuthRemoteStatus(code, rec)
    \/ LockTick
    \/ RevertToAuth
    \/ RevertToAuthFail
    \/ \E d \in {"uivm", "guest"} : Switch(d)
    \/ WindowClosed

Spec == Init /\ [][Next]_vars

\* libevent runs an armed timer once the loop is idle; surfman does not
\* refuse every one of infinitely many switches to the UIVM
FairSpec == Spec /\ WF_vars(RevertToAuth \/ RevertToAuthFail) /\ SF_vars(RevertToAuth)

-----------------------------------------------------------------------------
(* Properties *)

\* The secret fields: the username is not one (it is echoed to the guest).
\* input_secure resets collect_password only on entry, so the flag counts
\* only while secure mode is on.
Typed == \E f \in Fields \ {"USERNAME"} : text[f] # ""

\* Secure mode implements SecureSession: it is entered only with an auth
\* context (the Escape and Enter handlers of input_secure_mode read
\* ctx->flags unchecked), a secret character is collected only while secure
\* and after input_collect_password, and leaving secure mode
\* (input_secure(0), reached from auth_status hiding the window) drops the
\* context and wipes the password fields in the same step.
Session == INSTANCE SecureSession
    WITH on <- secure, hasCtx <- (ctx # NoCtx), collecting <- (collect /\ secure),
         typed <- Typed

SessionRefined == Session!Spec

\* While the lock screen is up with its revert timer armed, the screen
\* comes back to the UIVM (or the lock ends) whatever the other domains
\* do, even though a switch may fail: revert_to_auth must re-arm itself
\* after every firing, failed switch included, while secure mode is on.
LockReturnsToAuth ==
    (secure /\ HasFlag(S, "LOCK") /\ revert /\ focus = "guest")
        ~> (focus = "uivm" \/ ~secure \/ ~HasFlag(S, "LOCK"))

\* A lock is enforced: whenever secure mode is on with a context that has
\* LOCK, the revert timer that brings the UIVM back is armed.
LockEnforced == secure /\ HasFlag(S, "LOCK") => revert

\* No password hash stays on the ramdisk unless the backend still has to
\* answer the login that wrote it: auth_end and auth_remote_login write the
\* local hash before the remote one, and local_auth or auth_remote_status
\* removes them.
NoHashWithoutRequest == (localHash \/ remoteHash) => pending > 0
=============================================================================
