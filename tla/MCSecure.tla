------------------------------ MODULE MCSecure ------------------------------
EXTENDS Secure

MCWords == {"a"}

\* a local login, a remote user who types the name, setting the root
\* password with confirmation, changing the local password with confirmation
MCContexts ==
    {[user |-> "a", flags |-> {}],
     [user |-> "", flags |-> {"REMOTE_USER"}],
     [user |-> "a", flags |-> {"CONFIRM_PW", "SET_ROOT_PW"}],
     [user |-> "a", flags |-> {"CHANGE_LOCAL_PW", "CONFIRM_PW"}]}
=============================================================================
