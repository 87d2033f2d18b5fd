---------------------------- MODULE Conversations ----------------------------
(***************************************************************************)
(* Sessions and conversations (apps/api/services/conversation_service.py)  *)
(* and the items the model's runs keep in a session                        *)
(* (packages/memory/session.py).                                           *)
(*                                                                         *)
(* Runs of all conversations of a session number their items together.     *)
(* add_items holds an advisory lock of the session from its reading of the *)
(* last number to its commit; pop_item and clear_session do not take it.   *)
(* Submitting a message is part of AgentRun.  Left out: titles, members,   *)
(* audit and outbox rows (AuditLog), ownership (one user).                 *)
(***************************************************************************)
EXTENDS Naturals, FiniteSets

CONSTANTS
    ChatSessions, Chats,
    Writers,        \* runs that use a session, and requests that open a chat
    MaxItems,       \* bound: items ever added to a session
    Nowhere

VARIABLES
    chatSession,    \* status of sessions rows
    chatOf,         \* the session of a conversation, Nowhere before its row
    items,          \* rows of session_items: sequence, chat, and when it was added
    added,          \* items ever added to a session
    writer          \* what a writer's open transaction has read

chatVars == <<chatSession, chatOf, items, added, writer>>

ASSUME ChatAssumption == MaxItems \in Nat /\ Nowhere \notin ChatSessions \cup Chats

AtRest == [op |-> "rest"]

ChatInit ==
    /\ chatSession = [s \in ChatSessions |-> "NONE"]
    /\ chatOf = [c \in Chats |-> Nowhere]
    /\ items = [s \in ChatSessions |-> {}]
    /\ added = [s \in ChatSessions |-> 0]
    /\ writer = [w \in Writers |-> AtRest]

CreateSession(s) ==
    /\ chatSession[s] = "NONE"
    /\ chatSession' = [chatSession EXCEPT ![s] = "ACTIVE"]
    /\ UNCHANGED <<chatOf, items, added, writer>>

\* The status it had is not asked.
CloseSession(s) ==
    /\ chatSession[s] # "NONE"
    /\ chatSession' = [chatSession EXCEPT ![s] = "CLOSED"]
    /\ UNCHANGED <<chatOf, items, added, writer>>

\* The session is read without a lock and may be closed before the commit.
BeginConversation(w, c, s) ==
    /\ writer[w] = AtRest /\ chatOf[c] = Nowhere /\ chatSession[s] = "ACTIVE"
    /\ writer' = [writer EXCEPT ![w] = [op |-> "open", chat |-> c, session |-> s]]
    /\ UNCHANGED <<chatSession, chatOf, items, added>>

CreateConversation(w) ==
    /\ writer[w].op = "open" /\ chatOf[writer[w].chat] = Nowhere
    /\ chatOf' = [chatOf EXCEPT ![writer[w].chat] = writer[w].session]
    /\ writer' = [writer EXCEPT ![w] = AtRest]
    /\ UNCHANGED <<chatSession, items, added>>

-----------------------------------------------------------------------------
\* Mutated form: numbers are taken from the conversation's own items.
LastItemOfChat(s, c) ==
    LET numbers == {item.sequence : item \in {x \in items[s] : x.chat = c}}
    IN  IF numbers = {} THEN 0 ELSE CHOOSE n \in numbers : \A m \in numbers : m <= n

\* The greatest number of the session's items, of whichever conversation.
LastItem(s, c) ==
    LET numbers == {item.sequence : item \in items[s]}
    IN  IF numbers = {} THEN 0 ELSE CHOOSE n \in numbers : \A m \in numbers : m <= n

AdvisoryLocked(s) == \E w \in Writers : writer[w].op = "add" /\ chatOf[writer[w].chat] = s

BeginAddItems(w, c) ==
    /\ writer[w] = AtRest /\ chatOf[c] # Nowhere /\ ~AdvisoryLocked(chatOf[c])
    /\ writer' = [writer EXCEPT ![w] = [op |-> "add", chat |-> c, last |-> LastItem(chatOf[c], c)]]
    /\ UNCHANGED <<chatSession, chatOf, items, added>>

AddItems(w) ==
    /\ writer[w].op = "add"
    /\ LET c == writer[w].chat
           s == chatOf[c]
       IN  /\ added[s] < MaxItems
           /\ added' = [added EXCEPT ![s] = added[s] + 1]
           /\ items' = [items EXCEPT ![s] = items[s] \cup
                {[sequence |-> writer[w].last + 1, chat |-> c, at |-> added[s] + 1]}]
    /\ writer' = [writer EXCEPT ![w] = AtRest]
    /\ UNCHANGED <<chatSession, chatOf>>

\* The newest item that no other pop has locked; the lock is held to the commit.
BeginPopItem(w, c) ==
    /\ writer[w] = AtRest /\ chatOf[c] # Nowhere
    /\ LET mine == {item \in items[chatOf[c]] : item.chat = c}
       IN  \E item \in mine :
             /\ \A other \in mine : other.sequence <= item.sequence
             /\ \A v \in Writers : writer[v].op = "drop" => item \notin writer[v].rows
             /\ writer' = [writer EXCEPT ![w] = [op |-> "drop", chat |-> c, rows |-> {item}]]
    /\ UNCHANGED <<chatSession, chatOf, items, added>>

BeginClearSession(w, c) ==
    /\ writer[w] = AtRest /\ chatOf[c] # Nowhere
    /\ writer' = [writer EXCEPT ![w] =
         [op |-> "drop", chat |-> c, rows |-> {item \in items[chatOf[c]] : item.chat = c}]]
    /\ UNCHANGED <<chatSession, chatOf, items, added>>

\* Only the rows that were read are deleted.
DropItems(w) ==
    /\ writer[w].op = "drop"
    /\ LET s == chatOf[writer[w].chat]
       IN  items' = [items EXCEPT ![s] = items[s] \ writer[w].rows]
    /\ writer' = [writer EXCEPT ![w] = AtRest]
    /\ UNCHANGED <<chatSession, chatOf, added>>

\* The transaction is rolled back.
WriterFails(w) ==
    /\ writer[w] # AtRest
    /\ writer' = [writer EXCEPT ![w] = AtRest]
    /\ UNCHANGED <<chatSession, chatOf, items, added>>

ChatNext ==
    \/ \E s \in ChatSessions : CreateSession(s) \/ CloseSession(s)
    \/ \E w \in Writers :
         \/ \E c \in Chats, s \in ChatSessions : BeginConversation(w, c, s)
         \/ CreateConversation(w)
         \/ \E c \in Chats : BeginAddItems(w, c) \/ BeginPopItem(w, c) \/ BeginClearSession(w, c)
         \/ AddItems(w)
         \/ DropItems(w)
         \/ WriterFails(w)

ChatSpec == ChatInit /\ [][ChatNext]_chatVars

-----------------------------------------------------------------------------
\* The items of a session have different numbers, and their numbers tell the
\* order in which they were added, although runs of several conversations add,
\* pop and clear at the same time and numbers are used again after a pop
\* (add_items, pop_item, clear_session; the unique constraint would make a
\* run fail otherwise).
ItemsInOrder ==
    \A s \in ChatSessions : \A a, b \in items[s] :
      a # b => /\ a.sequence # b.sequence
               /\ a.sequence < b.sequence <=> a.at < b.at
=============================================================================
