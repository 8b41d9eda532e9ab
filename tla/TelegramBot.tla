---------------------------- MODULE TelegramBot ----------------------------
(***************************************************************************)
(* The Telegram bot: linking a user's chat, and the configuration that      *)
(* senders read through a cache of a few seconds.                           *)
(*                                                                         *)
(* Link tokens live in the memory of the process; the callback of the bot    *)
(* takes one out before it reads and writes the user's row.  The cache is    *)
(* cleared after an update has committed, and a request that read the row    *)
(* before the update may fill it with the old values after that.            *)
(***************************************************************************)
EXTENDS Naturals

CONSTANTS
    LinkUsers,
    MaxLinkTokens,  \* bound: link tokens issued
    MaxVersion,     \* bound: versions of the configuration
    BotReaders      \* requests that read the configuration at once

ASSUME TelegramAssumption == MaxLinkTokens \in Nat /\ MaxVersion \in Nat \ {0}

LinkTokens == 1..MaxLinkTokens

VARIABLES
    linkToken,    \* _LINKING_TOKENS: state and owner of every token
    answering,    \* tokens that a callback has taken out and not yet used
    chat,         \* the token through which the user's chat was linked, 0 without a chat
    linkedEver,   \* history: tokens that have linked a chat
    botConfig,    \* version of the row telegram_bot_config
    clearing,     \* an update has committed and not yet cleared the cache
    botCache,     \* _CACHE: version of the snapshot, 0 without one
    botReads,     \* botReads[b]: version that a request has read, 0 before
    overtaken     \* the snapshot was stored by a request older than the last update

botVars == <<linkToken, answering, chat, linkedEver, botConfig, clearing, botCache, botReads,
             overtaken>>
linkVars == <<linkToken, answering, chat, linkedEver>>
cacheVars == <<botConfig, clearing, botCache, botReads, overtaken>>

NoToken == [state |-> "none", user |-> "none"]

BotInit ==
    /\ linkToken = [t \in LinkTokens |-> NoToken]
    /\ answering = {}
    /\ chat = [u \in LinkUsers |-> 0]
    /\ linkedEver = {}
    /\ botConfig = 1
    /\ clearing = FALSE
    /\ botCache = 0
    /\ botReads = [b \in BotReaders |-> 0]
    /\ overtaken = FALSE

start_telegram_link(u) ==
    /\ \E t \in LinkTokens :
         /\ linkToken[t] = NoToken
         /\ \A s \in 1..(t - 1) : linkToken[s] # NoToken
         /\ linkToken' = [linkToken EXCEPT ![t] = [state |-> "live", user |-> u]]
    /\ UNCHANGED <<answering, chat, linkedEver, cacheVars>>

LinkTokenExpires(t) ==
    /\ linkToken[t].state = "live"
    /\ linkToken' = [linkToken EXCEPT ![t].state = "expired"]
    /\ UNCHANGED <<answering, chat, linkedEver, cacheVars>>

telegram_callback(t) ==
    /\ linkToken[t].state \in {"live", "expired"}
    /\ answering' = IF linkToken[t].state = "live" THEN answering \union {t} ELSE answering
    /\ linkToken' = [linkToken EXCEPT ![t].state = "gone"]
    /\ UNCHANGED <<chat, linkedEver, cacheVars>>

callback_commits(t) ==
    /\ t \in answering
    /\ answering' = answering \ {t}
    /\ chat' = [chat EXCEPT ![linkToken[t].user] = t]
    /\ linkedEver' = linkedEver \union {t}
    /\ UNCHANGED <<linkToken, cacheVars>>

unlink_telegram(u) ==
    /\ chat[u] # 0
    /\ chat' = [chat EXCEPT ![u] = 0]
    /\ UNCHANGED <<linkToken, answering, linkedEver, cacheVars>>

BotRestart ==
    /\ linkToken' = [t \in LinkTokens |-> IF linkToken[t] = NoToken THEN NoToken
                                            ELSE [linkToken[t] EXCEPT !.state = "gone"]]
    /\ answering' = {}
    /\ botCache' = 0
    /\ botReads' = [b \in BotReaders |-> 0]
    /\ clearing' = FALSE
    /\ overtaken' = FALSE
    /\ UNCHANGED <<chat, linkedEver, botConfig>>

-----------------------------------------------------------------------------
\* The snapshot is missing or too old: the row is read.
get_bot_config(b) ==
    /\ botCache = 0
    /\ botReads[b] = 0
    /\ botReads' = [botReads EXCEPT ![b] = botConfig]
    /\ UNCHANGED <<linkVars, botConfig, clearing, botCache, overtaken>>

store_snapshot(b) ==
    /\ botReads[b] # 0
    /\ botCache' = botReads[b]
    /\ overtaken' = (botReads[b] # botConfig)
    /\ botReads' = [botReads EXCEPT ![b] = 0]
    /\ UNCHANGED <<linkVars, botConfig, clearing>>

update_bot_config ==
    /\ ~clearing
    /\ botConfig < MaxVersion
    /\ botConfig' = botConfig + 1
    /\ clearing' = TRUE
    /\ UNCHANGED <<linkVars, botCache, botReads, overtaken>>

\* Mutant: the snapshot is kept until it is too old.
invalidate_keeps ==
    /\ clearing
    /\ clearing' = FALSE
    /\ UNCHANGED <<linkVars, botConfig, botCache, botReads, overtaken>>

invalidate_bot_cache ==
    /\ clearing
    /\ clearing' = FALSE
    /\ botCache' = 0
    /\ overtaken' = FALSE
    /\ UNCHANGED <<linkVars, botConfig, botReads>>

SnapshotAges ==
    /\ botCache # 0
    /\ botCache' = 0
    /\ overtaken' = FALSE
    /\ UNCHANGED <<linkVars, botConfig, clearing, botReads>>

BotNext ==
    \/ BotRestart \/ update_bot_config \/ invalidate_bot_cache \/ SnapshotAges
    \/ \E u \in LinkUsers : start_telegram_link(u) \/ unlink_telegram(u)
    \/ \E t \in LinkTokens : LinkTokenExpires(t) \/ telegram_callback(t) \/ callback_commits(t)
    \/ \E b \in BotReaders : get_bot_config(b) \/ store_snapshot(b)

BotSpec == BotInit /\ [][BotNext]_botVars

-----------------------------------------------------------------------------
(* Properties.                                                               *)

\* Every variable keeps its type, and a chat was linked through a token of the
\* user.
BotTypeOK ==
    /\ linkToken \in [LinkTokens -> [state : {"none", "live", "expired", "gone"},
                                     user : LinkUsers \union {"none"}]]
    /\ answering \subseteq LinkTokens
    /\ chat \in [LinkUsers -> 0..MaxLinkTokens]
    /\ linkedEver \subseteq LinkTokens
    /\ botConfig \in 1..MaxVersion
    /\ \A u \in LinkUsers : chat[u] # 0 => linkToken[chat[u]].user = u

\* A link token links one chat once: a callback that Telegram repeats, or one
\* that comes after the user has unlinked, links nothing (routes/notifications.py:420).
TokenLinksOnce ==
    [][\A u \in LinkUsers : chat'[u] # chat[u] /\ chat'[u] # 0 => chat'[u] \notin linkedEver]_botVars

\* Once an update is over, senders use the new configuration
\* (telegram_bot_admin.py:242), unless a request that had read the old one
\* stores it afterwards; then they do so when the snapshot is too old.
SnapshotIsCurrent ==
    botCache \in {0, botConfig} \/ clearing \/ overtaken
=============================================================================
