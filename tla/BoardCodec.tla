----------------------------- MODULE BoardCodec -----------------------------
(***************************************************************************)
(* The messages of the board domain, src/src/domains/board.c. Every        *)
(* message is packed and unpacked by the same two functions, which call    *)
(* the validator of its type: on the value of the caller before anything   *)
(* is written, on the field of the Message before anything is read. A      *)
(* schema names the fields a validator looks at; value stands for the      *)
(* others. "over" is a value outside the range, a text without its end, a  *)
(* count or a size beyond what it counts.                                  *)
(***************************************************************************)
EXTENDS Codec

\* Faulty variant: only the sender looks.
Checked_Sender(k) == Refusing(k, {"over"})

Checked(k)  == Rejecting(Refusing(k, {"over"}), {"over"})
ValidEnum   == Checked(Ranged)
\* Also the number of elements of an array.
ValidString == Checked([Ranged EXCEPT !.bounded = TRUE])
ValidSize   == Checked(Wide)
\* offset + count <= total, unless total is 0.
ValidSpan   == Checked(Ranged)
ValidateLease == Optional(ValidEnum)
Lease == [lease |-> ValidateLease]

\* Faulty variant: the identifier of the request is not copied back.
Board_NoId(tag, checks) ==
  Tested(Message(tag, Also([request_id |-> Unread(Plain), value |-> Plain], checks)))

Board(tag, checks) ==
  Tested(Message(tag, Also([request_id |-> Plain, value |-> Plain], checks)))

\* Messages whose validator accepts every value.
ValidateOk == <<>>
ValidatedOk ==
  {"get_board_info", "list_sensors", "read_sensor", "configure_stream", "stop_stream",
   "calibrate", "get_calibration", "get_input_state", "adc_read", "storage_info",
   "storage_adopt", "storage_erase_log", "get_runtime_config", "remote_profile_get",
   "audio_configure", "stream_configured", "audio_configured"}

SetOutput      == Board("set_output", Also([target |-> ValidEnum], Lease))
ConfigureInput == Board("configure_input", [mode |-> ValidEnum])
I2cTransfer    == Board("i2c_transfer", Also([write_data |-> ValidSize,
                                              read_length |-> ValidEnum], Lease))
GpioConfigure  ==
  Board("gpio_configure", Also([direction |-> ValidEnum, pull |-> ValidEnum], Lease))
GpioRead       == Board("gpio_read", Lease)
GpioWrite      == Board("gpio_write", Lease)
SpiTransfer    == Board("spi_transfer", Also([mode |-> ValidEnum, tx_data |-> ValidSize,
                                              read_length |-> ValidEnum], Lease))
StorageReadLog == Board("storage_read_log", [max_bytes |-> ValidEnum])
RuntimeUpdate  == [persisted_runtime |-> Optional(ValidEnum)]
\* The runtime is looked at in an update only; operation is "over" when unknown.
SetRuntimeConfig == Board("set_runtime_config", Also([operation |-> ValidEnum], RuntimeUpdate))
SetRuntimeMode   == Board("set_runtime_mode", [runtime |-> ValidEnum])
ProfileMapping   == [source |-> Optional(ValidEnum), action |-> Optional(ValidEnum)]
Profile ==
  Also([name |-> Optional(ValidString), mappings |-> Optional(ValidString)], ProfileMapping)
RemoteProfileSet == Board("remote_profile_set", Profile)
\* With a lease, the lease alone decides.
ReleasePin == Board("release_pin", Also(Lease, [resource |-> [ValidEnum EXCEPT !.unless = "lease"]]))
RawPcmDiagnostics == Board("raw_pcm_diagnostics", [chunk_size |-> ValidEnum])

CommandResult == Board("command_result", [command |-> ValidEnum, result |-> ValidEnum,
                                          detail |-> ValidString])
BoardInfo == Board("board_info",
  [board_name |-> ValidString, hardware_revision |-> ValidString,
   firmware_version |-> ValidString, protocol_variant |-> ValidString,
   device_id |-> ValidSize, active_runtime |-> ValidEnum])
SensorDescriptorValue ==
  [name |-> Optional(ValidString), unit |-> Optional(ValidString),
   component_names |-> Optional(ValidString), rates |-> Optional(ValidString)]
SensorDescriptor == Board("sensor_descriptor", SensorDescriptorValue)
SensorSample == Board("sensor_sample", [values |-> ValidString, status |-> ValidEnum])
Calibration  == Board("calibration", [calibration_data |-> ValidSize])
InputState   == Board("input_state", [gesture |-> ValidEnum, mode |-> ValidEnum])
I2cResult    == Board("i2c_result", Also([result |-> ValidEnum, read_data |-> ValidSize,
                                          bytes_read |-> ValidEnum], Lease))
GpioConfigured == Board("gpio_configured", Also([result |-> ValidEnum], Lease))
GpioValue    == Board("gpio_value", Also([result |-> ValidEnum], Lease))
AdcValue     == Board("adc_value", [result |-> ValidEnum])
SpiResult    == Board("spi_result", Also([result |-> ValidEnum, rx_data |-> ValidSize,
                                          bytes_read |-> ValidEnum], Lease))
StorageStatus == Board("storage_status", [state |-> ValidEnum])
RuntimeConfig == Board("runtime_config", [active_runtime |-> ValidEnum,
                                          persisted_runtime |-> ValidEnum])
RemoteProfile == Board("remote_profile", Profile)
\* The bytes of a chunk: count of them, at offset, out of total.
Chunk == [result |-> ValidEnum, data |-> ValidSize, count |-> ValidEnum, span |-> ValidSpan]
AudioChunk    == Board("audio_chunk", Chunk)
InputEvent    == Board("input_event", [source |-> ValidEnum, action |-> ValidEnum])
GestureEvent  == Board("gesture_event", [gesture |-> ValidEnum])
LogChunk      == Board("log_chunk", Chunk)
BoardStatus   == Board("board_status",
  [code |-> ValidEnum, result |-> ValidEnum, resource |-> ValidEnum, progress |-> ValidEnum,
   detail |-> ValidString])

\* Messages whose validator looks at something.
Validated ==
  [set_output |-> SetOutput, configure_input |-> ConfigureInput, i2c_transfer |-> I2cTransfer,
   gpio_configure |-> GpioConfigure, gpio_read |-> GpioRead, gpio_write |-> GpioWrite,
   spi_transfer |-> SpiTransfer, storage_read_log |-> StorageReadLog,
   set_runtime_config |-> SetRuntimeConfig, set_runtime_mode |-> SetRuntimeMode,
   remote_profile_set |-> RemoteProfileSet, release_pin |-> ReleasePin,
   raw_pcm_diagnostics |-> RawPcmDiagnostics, command_result |-> CommandResult,
   board_info |-> BoardInfo, sensor_descriptor |-> SensorDescriptor,
   sensor_sample |-> SensorSample, calibration |-> Calibration, input_state |-> InputState,
   i2c_result |-> I2cResult, gpio_configured |-> GpioConfigured, gpio_value |-> GpioValue,
   adc_value |-> AdcValue, spi_result |-> SpiResult, storage_status |-> StorageStatus,
   runtime_config |-> RuntimeConfig, remote_profile |-> RemoteProfile,
   audio_chunk |-> AudioChunk, input_event |-> InputEvent, gesture_event |-> GestureEvent,
   log_chunk |-> LogChunk, board_status |-> BoardStatus]

Table == Also(Validated, [t \in ValidatedOk |-> Board(t, ValidateOk)])
=============================================================================
