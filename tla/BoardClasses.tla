---------------------------- MODULE BoardClasses ----------------------------
(***************************************************************************)
(* The classes of src/src/cpp/domains/board: one per message.               *)
(***************************************************************************)
EXTENDS Classes

\* pack() and unpack() throw when the C function fails. The constructor keeps
\* the identifier and zeroes the value, which the caller then fills.
BoardClass(msg) == [Class(msg) EXCEPT !.strict = TRUE]

AdcRead           == BoardClass("adc_read")
AdcValue          == BoardClass("adc_value")
AudioChunk        == BoardClass("audio_chunk")
AudioConfigure    == BoardClass("audio_configure")
AudioConfigured   == BoardClass("audio_configured")
BoardInfo         == BoardClass("board_info")
BoardStatus       == BoardClass("board_status")
Calibrate         == BoardClass("calibrate")
Calibration       == BoardClass("calibration")
CommandResult     == BoardClass("command_result")
ConfigureInput    == BoardClass("configure_input")
ConfigureStream   == BoardClass("configure_stream")
GestureEvent      == BoardClass("gesture_event")
GetBoardInfo      == BoardClass("get_board_info")
GetCalibration    == BoardClass("get_calibration")
GetInputState     == BoardClass("get_input_state")
GetRuntimeConfig  == BoardClass("get_runtime_config")
GpioConfigure     == BoardClass("gpio_configure")
GpioConfigured    == BoardClass("gpio_configured")
GpioRead          == BoardClass("gpio_read")
GpioValue         == BoardClass("gpio_value")
GpioWrite         == BoardClass("gpio_write")
I2cResult         == BoardClass("i2c_result")
I2cTransfer       == BoardClass("i2c_transfer")
InputEvent        == BoardClass("input_event")
InputState        == BoardClass("input_state")
ListSensors       == BoardClass("list_sensors")
LogChunk          == BoardClass("log_chunk")
RawPcmDiagnostics == BoardClass("raw_pcm_diagnostics")
ReadSensor        == BoardClass("read_sensor")
ReleasePin        == BoardClass("release_pin")
RemoteProfile     == BoardClass("remote_profile")
RemoteProfileGet  == BoardClass("remote_profile_get")
RemoteProfileSet  == BoardClass("remote_profile_set")
RuntimeConfig     == BoardClass("runtime_config")
SensorDescriptor  == BoardClass("sensor_descriptor")
SensorSample      == BoardClass("sensor_sample")
SetOutput         == BoardClass("set_output")
SetRuntimeConfig  == BoardClass("set_runtime_config")
SetRuntimeMode    == BoardClass("set_runtime_mode")
SpiResult         == BoardClass("spi_result")
SpiTransfer       == BoardClass("spi_transfer")
StopStream        == BoardClass("stop_stream")
StorageAdopt      == BoardClass("storage_adopt")
StorageEraseLog   == BoardClass("storage_erase_log")
StorageInfo       == BoardClass("storage_info")
StorageReadLog    == BoardClass("storage_read_log")
StorageStatus     == BoardClass("storage_status")
StreamConfigured  == BoardClass("stream_configured")

Table ==
  [AdcRead |-> AdcRead, AdcValue |-> AdcValue, AudioChunk |-> AudioChunk,
   AudioConfigure |-> AudioConfigure, AudioConfigured |-> AudioConfigured,
   BoardInfo |-> BoardInfo, BoardStatus |-> BoardStatus, Calibrate |-> Calibrate,
   Calibration |-> Calibration, CommandResult |-> CommandResult,
   ConfigureInput |-> ConfigureInput, ConfigureStream |-> ConfigureStream,
   GestureEvent |-> GestureEvent, GetBoardInfo |-> GetBoardInfo,
   GetCalibration |-> GetCalibration, GetInputState |-> GetInputState,
   GetRuntimeConfig |-> GetRuntimeConfig, GpioConfigure |-> GpioConfigure,
   GpioConfigured |-> GpioConfigured, GpioRead |-> GpioRead, GpioValue |-> GpioValue,
   GpioWrite |-> GpioWrite, I2cResult |-> I2cResult, I2cTransfer |-> I2cTransfer,
   InputEvent |-> InputEvent, InputState |-> InputState, ListSensors |-> ListSensors,
   LogChunk |-> LogChunk, RawPcmDiagnostics |-> RawPcmDiagnostics, ReadSensor |-> ReadSensor,
   ReleasePin |-> ReleasePin, RemoteProfile |-> RemoteProfile,
   RemoteProfileGet |-> RemoteProfileGet, RemoteProfileSet |-> RemoteProfileSet,
   RuntimeConfig |-> RuntimeConfig, SensorDescriptor |-> SensorDescriptor,
   SensorSample |-> SensorSample, SetOutput |-> SetOutput,
   SetRuntimeConfig |-> SetRuntimeConfig, SetRuntimeMode |-> SetRuntimeMode,
   SpiResult |-> SpiResult, SpiTransfer |-> SpiTransfer, StopStream |-> StopStream,
   StorageAdopt |-> StorageAdopt, StorageEraseLog |-> StorageEraseLog,
   StorageInfo |-> StorageInfo, StorageReadLog |-> StorageReadLog,
   StorageStatus |-> StorageStatus, StreamConfigured |-> StreamConfigured]
=============================================================================
