--------------------------- MODULE MCConversations ---------------------------
(***************************************************************************)
(* Instances of Conversations for TLC: two agents, x and y.                *)
(***************************************************************************)
EXTENDS Conversations, TLC

CONSTANTS
    x, y,           \* agents
    tg, web,        \* a Telegram chat and a webchat session
    u1, u2,         \* what is written in them
    q,              \* x asks y
    t1, b1,         \* a task for y, a system broadcast
    r1, o1, h1      \* what y is given to forward

\* One person on Telegram and one on the web talk to x.
TwoPeople == (u1 :> tg) @@ (u2 :> web)
OnX       == [u \in Updates |-> x]

FromX == q :> x
ToY   == q :> y

TaskAndShutdown ==
    {Message(t1, Orchestrator, y, "task", None, None),
     Message(b1, Orchestrator, ToAll, "system", None, None)}

Body(at, m) == [at |-> at, id |-> m.id, from |-> m.from, to |-> m.to,
                type |-> m.type, corr |-> m.corr, session |-> m.session]

\* An answer to the Telegram update, under the id that webchat has returned to its
\* caller; a question in the chat, under the same id; and a skill in the
\* orchestrator's name, under the id of its task.
PostsIntoChats ==
    {Body(y, Message(<<u2, 1>>, x, x, "channel_response", <<u1, 1>>, tg)),
     Body(x, Message(<<u2, 1>>, y, y, "channel_message", None, tg)),
     Body(y, Message(t1, Orchestrator, x, "skill", None, None))}

\* An answer of y to q, which y may give more than once; a result for the
\* orchestrator; and a broadcast.
PostsOfY ==
    {Body(y, Message(r1, y, x, "p2p", q, None)),
     Body(y, Message(o1, y, ToOrch, "task_result", None, None)),
     Body(y, Message(h1, y, ToAll, "heartbeat", None, None))}

AnyPost == PostsIntoChats \cup PostsOfY

=============================================================================
