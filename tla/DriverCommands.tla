--------------------------- MODULE DriverCommands ---------------------------
(***************************************************************************)
(* What ServerDrv and WiFiDrv of libraries/WiFiNINA say to the WiFi module *)
(* over SPI: for every function the bytes of the command it sends, the     *)
(* bytes it pads it with, the function that reads the reply, and what it   *)
(* returns to its caller if the reply is broken.                           *)
(***************************************************************************)
EXTENDS Integers

\* The bytes sent by sendCmd, by sendParam and sendBuffer for a parameter of
\* n bytes, and for the end of the command.
SendCmd == 3
SendParam(n) == 1 + n
SendBuffer(n) == 2 + n
EndCmd == 1

\* The dummies read by "while (commandSize % 4)".
PadTo(commandSize) == (4 - (commandSize % 4)) % 4

Readers == {"waitResponseCmd", "waitResponseData8", "waitResponseData16",
            "waitResponseParams", "waitResponse"}

\* gated: it is sent only if SpiDrv::available(); again: it is sent again as long
\* as the answer is 0.
Command(name, bytes, pad, reader, broken) ==
    [name |-> name, bytes |-> bytes, pad |-> pad, reader |-> reader,
     broken |-> broken, gated |-> FALSE, again |-> FALSE]

-----------------------------------------------------------------------------
(* server_drv.cpp *)

startServer == Command("startServer",
    SendCmd + SendParam(2) + SendParam(1) + SendParam(1) + EndCmd, 1,
    "waitResponseCmd", "nothing")

startServerAt == Command("startServerAt",
    SendCmd + SendParam(4) + SendParam(2) + SendParam(1) + SendParam(1) + EndCmd, 0,
    "waitResponseCmd", "nothing")

startClient == Command("startClient",
    SendCmd + SendParam(4) + SendParam(2) + SendParam(1) + SendParam(1) + EndCmd, 0,
    "waitResponseCmd", "nothing")

startClientNamed(host_len) == Command("startClientNamed",
    SendCmd + SendParam(host_len) + SendParam(4) + SendParam(2) + SendParam(1)
        + SendParam(1) + EndCmd,
    PadTo(17 + host_len), "waitResponseCmd", "nothing")

stopClient == Command("stopClient",
    SendCmd + SendParam(1) + EndCmd, 2, "waitResponseCmd", "nothing")

getServerState == Command("getServerState",
    SendCmd + SendParam(1) + EndCmd, 2, "waitResponseCmd", "0")

getClientState == Command("getClientState",
    SendCmd + SendParam(1) + EndCmd, 2, "waitResponseCmd", "0")

availData == [Command("availData",
    SendCmd + SendParam(1) + EndCmd, 2, "waitResponseCmd", "0") EXCEPT !.gated = TRUE]

availServer == [Command("availServer",
    SendCmd + SendParam(1) + EndCmd, 2, "waitResponseCmd", "0") EXCEPT !.gated = TRUE]

\* peek is sent by the sendParam of two bytes.
getData == Command("getData",
    SendCmd + SendParam(1) + SendParam(2) + EndCmd, 3, "waitResponseData8", "false")

\* Mutant: the dummy for the second byte of the length is missing.
MutGetDataBuf == Command("getDataBuf",
    SendCmd + SendBuffer(1) + SendBuffer(2) + EndCmd, 0, "waitResponseData16",
    "true, as many bytes as asked for")

getDataBuf == Command("getDataBuf",
    SendCmd + SendBuffer(1) + SendBuffer(2) + EndCmd, 1, "waitResponseData16",
    "true, as many bytes as asked for")

insertDataBuf(len) == Command("insertDataBuf",
    SendCmd + SendBuffer(1) + SendBuffer(len) + EndCmd, PadTo(9 + len),
    "waitResponseData8", "false")

sendUdpData == Command("sendUdpData",
    SendCmd + SendParam(1) + EndCmd, 2, "waitResponseData8", "false")

sendData(len) == Command("sendData",
    SendCmd + SendBuffer(1) + SendBuffer(len) + EndCmd, PadTo(9 + len),
    "waitResponseData8", "0")

checkDataSent == [Command("checkDataSent",
    SendCmd + SendParam(1) + EndCmd, 2, "waitResponseCmd", "0") EXCEPT !.again = TRUE]

getSocket == Command("getSocket", SendCmd + EndCmd, 0, "waitResponseCmd", "255")

-----------------------------------------------------------------------------
(* wifi_drv.cpp: the connection *)

wifiSetNetwork(ssid_len) == Command("wifiSetNetwork",
    SendCmd + SendParam(ssid_len) + EndCmd, PadTo(5 + ssid_len),
    "waitResponseCmd", "WL_FAILURE")

wifiSetPassphrase(ssid_len, len) == Command("wifiSetPassphrase",
    SendCmd + SendParam(ssid_len) + SendParam(len) + EndCmd,
    PadTo(6 + ssid_len + len), "waitResponseCmd", "WL_FAILURE")

wifiSetKey(ssid_len, len) == Command("wifiSetKey",
    SendCmd + SendParam(ssid_len) + SendParam(1) + SendParam(len) + EndCmd,
    PadTo(8 + ssid_len + len), "waitResponseCmd", "WL_FAILURE")

wifiSetApNetwork(ssid_len) == Command("wifiSetApNetwork",
    SendCmd + SendParam(ssid_len) + SendParam(1) + EndCmd, PadTo(3 + ssid_len),
    "waitResponseCmd", "WL_FAILURE")

wifiSetApPassphrase(ssid_len, len) == Command("wifiSetApPassphrase",
    SendCmd + SendParam(ssid_len) + SendParam(len) + SendParam(1) + EndCmd,
    PadTo(4 + ssid_len + len), "waitResponseCmd", "WL_FAILURE")

config == Command("config",
    SendCmd + SendParam(1) + SendParam(4) + SendParam(4) + SendParam(4) + EndCmd, 3,
    "waitResponseCmd", "nothing")

setDNS == Command("setDNS",
    SendCmd + SendParam(1) + SendParam(4) + SendParam(4) + EndCmd, 0,
    "waitResponseCmd", "nothing")

setHostname(len) == Command("setHostname",
    SendCmd + SendParam(len) + EndCmd, PadTo(5 + len), "waitResponseCmd", "nothing")

\* It returns what waitResponseCmd returns.
disconnect == Command("disconnect",
    SendCmd + SendParam(1) + EndCmd, 2, "waitResponseCmd", "0")

\* 255 is WL_NO_MODULE.
getConnectionStatus == Command("getConnectionStatus",
    SendCmd + EndCmd, 0, "waitResponseCmd", "255")

setPowerMode == Command("setPowerMode",
    SendCmd + SendParam(1) + EndCmd, 2, "waitResponseCmd", "nothing")

debug == Command("debug",
    SendCmd + SendParam(1) + EndCmd, 2, "waitResponseCmd", "nothing")

-----------------------------------------------------------------------------
(* wifi_drv.cpp: what the module knows *)

\* The last values that were read stay in the driver's variables.
getNetworkData == Command("getNetworkData",
    SendCmd + SendParam(1) + EndCmd, 2, "waitResponseParams", "the last answer")

getRemoteData == Command("getRemoteData",
    SendCmd + SendParam(1) + EndCmd, 2, "waitResponseParams", "what was there")

getMacAddress == Command("getMacAddress",
    SendCmd + SendParam(1) + EndCmd, 2, "waitResponseCmd", "the last answer")

getCurrentSSID == Command("getCurrentSSID",
    SendCmd + SendParam(1) + EndCmd, 2, "waitResponseCmd", "an empty string")

getCurrentBSSID == Command("getCurrentBSSID",
    SendCmd + SendParam(1) + EndCmd, 2, "waitResponseCmd", "the last answer")

getCurrentRSSI == Command("getCurrentRSSI",
    SendCmd + SendParam(1) + EndCmd, 2, "waitResponseCmd", "0")

getCurrentEncryptionType == Command("getCurrentEncryptionType",
    SendCmd + SendParam(1) + EndCmd, 2, "waitResponseCmd", "0")

startScanNetworks == Command("startScanNetworks",
    SendCmd + EndCmd, 0, "waitResponseCmd", "WL_FAILURE")

getScanNetworks == Command("getScanNetworks",
    SendCmd + EndCmd, 0, "waitResponse", "0")

\* These return at once for an item beyond the list.
getEncTypeNetowrks == Command("getEncTypeNetowrks",
    SendCmd + SendParam(1) + EndCmd, 2, "waitResponseCmd", "0")

getBSSIDNetowrks == Command("getBSSIDNetowrks",
    SendCmd + SendParam(1) + EndCmd, 2, "waitResponseCmd", "what was there")

getChannelNetowrks == Command("getChannelNetowrks",
    SendCmd + SendParam(1) + EndCmd, 2, "waitResponseCmd", "0")

getRSSINetoworks == Command("getRSSINetoworks",
    SendCmd + SendParam(1) + EndCmd, 2, "waitResponseCmd", "0")

reqHostByName(len) == Command("reqHostByName",
    SendCmd + SendParam(len) + EndCmd, PadTo(5 + len), "waitResponseCmd", "0")

getHostByName == Command("getHostByName", SendCmd + EndCmd, 0, "waitResponseCmd", "0")

getFwVersion == Command("getFwVersion",
    SendCmd + EndCmd, 0, "waitResponseCmd", "the last answer")

getTime == Command("getTime", SendCmd + EndCmd, 0, "waitResponseCmd", "0")

ping == Command("ping",
    SendCmd + SendParam(4) + SendParam(1) + EndCmd, 1, "waitResponseCmd",
    "WL_PING_ERROR")

getTemperature == Command("getTemperature",
    SendCmd + EndCmd, 0, "waitResponseCmd", "0")

-----------------------------------------------------------------------------
(* wifi_drv.cpp: pins of the module *)

pinMode == Command("pinMode",
    SendCmd + SendParam(1) + SendParam(1) + EndCmd, 1, "waitResponseCmd", "nothing")

digitalWrite == Command("digitalWrite",
    SendCmd + SendParam(1) + SendParam(1) + EndCmd, 1, "waitResponseCmd", "nothing")

analogWrite == Command("analogWrite",
    SendCmd + SendParam(1) + SendParam(1) + EndCmd, 1, "waitResponseCmd", "nothing")

-----------------------------------------------------------------------------

ServerCommands(Lengths) ==
    {startServer, startServerAt, startClient, stopClient, getServerState,
     getClientState, availData, availServer, getData, getDataBuf, sendUdpData,
     checkDataSent, getSocket}
    \cup UNION {{startClientNamed(l), insertDataBuf(l), sendData(l)} : l \in Lengths}

NetworkCommands(Lengths) ==
    {config, setDNS, disconnect, getConnectionStatus, setPowerMode, debug,
     getNetworkData, getRemoteData, getMacAddress, getCurrentSSID, getCurrentBSSID,
     getCurrentRSSI, getCurrentEncryptionType, startScanNetworks, getScanNetworks,
     getEncTypeNetowrks, getBSSIDNetowrks, getChannelNetowrks, getRSSINetoworks,
     getHostByName, getFwVersion, getTime, ping, getTemperature}
    \cup (UNION {{wifiSetNetwork(l), wifiSetApNetwork(l), setHostname(l),
                  reqHostByName(l)} : l \in Lengths})
    \cup (UNION {{wifiSetPassphrase(l, k), wifiSetKey(l, k), wifiSetApPassphrase(l, k)} :
                  l, k \in Lengths})

PinCommands == {pinMode, digitalWrite, analogWrite}
=============================================================================
